---------------------------- MODULE Spec2Model ----------------------------
(***************************************************************************)
(* A model of pyOCCT_binder (src/pybinder/core.py, src/generate/run.py):   *)
(* the binding generator that buckets parsed C++ declarations into         *)
(* modules, orders them, generates pybind11 source text for each and       *)
(* writes the text to disk only when it changed.                           *)
(*                                                                         *)
(* Generated text is modelled as the text itself: a line is a TLA+ string  *)
(* built with the format strings of the source, a source listing (src) is  *)
(* a sequence of lines, and a file holds the bytes of the concatenation of *)
(* everything written to the buffer.                                       *)
(***************************************************************************)
EXTENDS Integers, Sequences, FiniteSets, TLC

VARIABLES
    files,      \* the output directory: path -> bytes, or NoFile
    lastCall,   \* record of the latest overwrite_if_changed call, or NoCall
    fsrc,       \* the io.StringIO handed to overwrite_if_changed: chunks written so far
    Generator,  \* the class attributes of Generator: the rule tables and available sets
    ast,        \* the parsed translation unit: qualified name -> cursor of each declaration
    tu,         \* the children of the translation unit cursor, in order
    mods,       \* Generator._mods: the registry of modules, in insertion order
    binders,    \* declaration -> the mutable attributes of its CursorBinder
    pc,         \* the step of main() (generate/run.py) that runs next
    run,        \* record of the completed Generator.bind runs
    gin,        \* the declaration handed to a generate_* function
    gout,       \* what the generate_* function returned
    circ,       \* record of the latest Module.is_circular call
    conf        \* the configuration file, the platform, and how process_config ended

fsVars == <<files, lastCall, fsrc>>
inVars == <<Generator, ast, tu>>
pipeVars == <<mods, binders, pc, run>>
genVars == <<gin, gout>>
vars == <<files, lastCall, fsrc, Generator, ast, tu, mods, binders, pc, run, gin, gout, circ,
          conf>>

None == "__None__"
NoFile == [nofile |-> TRUE]
NoCall == [called |-> FALSE]
NoMacro == [name |-> None]
NoRun ==
    [n |-> 0, writes |-> 0, before |-> <<>>, circular |-> <<>>, checked |-> <<>>,
     raised |-> FALSE]
NoIn == [kind |-> "none"]
NoOut == [done |-> FALSE, src |-> <<>>]
NoCirc == [called |-> FALSE]
NoConf == [lines |-> <<>>, platform |-> "linux", done |-> FALSE, error |-> 0]

-----------------------------------------------------------------------------
(* Text helpers: Python str operations used by the source.                  *)

\* str.startswith
StartsWith(s, p) == Len(s) >= Len(p) /\ SubSeq(s, 1, Len(p)) = p

\* the `in` operator on two str
Contains(s, p) ==
    \E i \in 1..(Len(s) - Len(p) + 1) : SubSeq(s, i, i + Len(p) - 1) = p

\* ''.join(list)
RECURSIVE Join(_)
Join(chunks) ==
    IF chunks = <<>> THEN "" ELSE Head(chunks) \o Join(Tail(chunks))

\* sep.join(list)
RECURSIVE JoinSep(_, _)
JoinSep(sep, xs) ==
    IF xs = <<>> THEN ""
    ELSE IF Len(xs) = 1 THEN xs[1]
    ELSE xs[1] \o sep \o JoinSep(sep, Tail(xs))


\* str.endswith
EndsWith(s, p) ==
    Len(s) >= Len(p) /\ SubSeq(s, Len(s) - Len(p) + 1, Len(s)) = p

\* str.find: the index (from 1) of the first occurrence of p in s, 0 if none
IndexOf(s, p) ==
    LET hits == {i \in 1..(Len(s) - Len(p) + 1) : SubSeq(s, i, i + Len(p) - 1) = p}
    IN  IF hits = {} THEN 0 ELSE CHOOSE i \in hits : \A j \in hits : i <= j

\* s.split(p)[0]
SplitHead(s, p) ==
    IF IndexOf(s, p) = 0 THEN s ELSE SubSeq(s, 1, IndexOf(s, p) - 1)

\* s.split(p)[-1]
RECURSIVE SplitLast(_, _)
SplitLast(s, p) ==
    IF IndexOf(s, p) = 0 THEN s
    ELSE SplitLast(SubSeq(s, IndexOf(s, p) + Len(p), Len(s)), p)

\* str.replace
RECURSIVE Replace(_, _, _)
Replace(s, find, rep) ==
    IF IndexOf(s, find) = 0 THEN s
    ELSE SubSeq(s, 1, IndexOf(s, find) - 1) \o rep
            \o Replace(SubSeq(s, IndexOf(s, find) + Len(find), Len(s)), find, rep)

LowerCase == <<"a","b","c","d","e","f","g","h","i","j","k","l","m",
               "n","o","p","q","r","s","t","u","v","w","x","y","z">>
UpperCase == <<"A","B","C","D","E","F","G","H","I","J","K","L","M",
               "N","O","P","Q","R","S","T","U","V","W","X","Y","Z">>

\* str.upper
RECURSIVE Upper(_)
Upper(s) ==
    IF s = "" THEN ""
    ELSE LET c == SubSeq(s, 1, 1)
             at == {i \in 1..Len(LowerCase) : LowerCase[i] = c}
         IN  (IF at = {} THEN c ELSE UpperCase[CHOOSE i \in at : TRUE])
                \o Upper(SubSeq(s, 2, Len(s)))

\* fnmatch.fnmatch for the patterns of the model's rule tables: a literal
\* name, or a prefix followed by one '*'
fnmatch(name, pat) ==
    IF EndsWith(pat, "*")
    THEN StartsWith(name, SubSeq(pat, 1, Len(pat) - 1))
    ELSE name = pat

\* the elements of a list, as a set
Range(xs) == {xs[i] : i \in DOMAIN xs}

\* [x for x in xs if Test(x)]
RECURSIVE SelectSeqBy(_, _)
SelectSeqBy(xs, keep) ==
    IF xs = <<>> THEN <<>>
    ELSE (IF Head(xs) \in keep THEN <<Head(xs)>> ELSE <<>>)
            \o SelectSeqBy(Tail(xs), keep)

\* the concatenation of a list of lists
RECURSIVE Flatten(_)
Flatten(xss) ==
    IF xss = <<>> THEN <<>> ELSE Head(xss) \o Flatten(Tail(xss))

-----------------------------------------------------------------------------
(* The AST as the front end reports it.  A cursor is a record of what      *)
(* libclang answers for one declaration; a type is a record of what it     *)
(* answers for one type.  ast maps the qualified name of every declaration *)
(* that has a definition to its cursor (ast.cursors), and each type named *)
(* by a handle macro instantiation to that macro (ast.macros).             *)

NoType ==
    [spelling |-> "", kind |-> "INVALID", is_const_qualified |-> FALSE,
     pointee |-> "", canonical |-> "", canonical_kind |-> "INVALID",
     decl |-> None, canonical_decl |-> None,
     is_alias |-> FALSE, alias_spelling |-> ""]

NoCursor ==
    [kind |-> "NO_DECL_FOUND", spelling |-> "", display_name |-> "",
     scope |-> "", filename |-> None, access |-> "public",
     is_definition |-> TRUE, type |-> NoType, rtype |-> NoType,
     underlying_decl |-> None, children |-> <<>>, tokens |-> "",
     is_abstract |-> FALSE, is_static_method |-> FALSE,
     is_const_method |-> FALSE, is_pure_virtual_method |-> FALSE,
     is_move_constructor |-> FALSE, is_bitfield |-> FALSE,
     specialization |-> None, refs |-> <<>>, brief_comment |-> None,
     \* attributes of the CursorBinder wrapped around the cursor
     alias |-> None, parent_name |-> "mod", pname |-> None, macro |-> NoMacro]

\* CursorBinder(cursor) for the declaration of that name; a binder around no
\* declaration when there is none
Decl(name) == IF name \in DOMAIN ast.cursors THEN ast.cursors[name] ELSE NoCursor

\* CursorBinder.kind and the predicates on it
no_decl(c) == c.kind = "NO_DECL_FOUND"
is_null(c) == c.kind = "NO_DECL_FOUND"
is_tu(c) == c.kind = "TRANSLATION_UNIT"
is_enum(c) == c.kind = "ENUM_DECL"
is_function(c) == c.kind = "FUNCTION_DECL"
is_class(c) == c.kind \in {"CLASS_DECL", "STRUCT_DECL"}
is_typedef(c) == c.kind = "TYPEDEF_DECL"
is_constructor(c) == c.kind = "CONSTRUCTOR"
is_cxx_method(c) == c.kind = "CXX_METHOD"
is_param(c) == c.kind = "PARM_DECL"
is_field(c) == c.kind = "FIELD_DECL"
is_class_template(c) == c.kind = "CLASS_TEMPLATE"
is_template_type_param(c) == c.kind = "TEMPLATE_TYPE_PARAMETER"
is_namespace(c) == c.kind = "NAMESPACE"

is_private(c) == c.access = "private"
is_protected(c) == c.access = "protected"
is_public(c) == ~is_private(c) /\ ~is_protected(c)

\* TypeBinder predicates
is_record(t) == t.kind = "RECORD"
is_pointer(t) == t.kind = "POINTER"
is_lvalue(t) == t.kind = "LVALUEREFERENCE"
is_rvalue(t) == t.kind = "RVALUEREFERENCE"
is_pointer_like(t) == is_pointer(t) \/ is_lvalue(t) \/ is_rvalue(t)
is_array_like(t) ==
    t.kind \in {"CONSTANTARRAY", "INCOMPLETEARRAY", "VARIABLEARRAY",
                "DEPENDENTSIZEDARRAY"}

\* str.strip("* ")
RECURSIVE StripStarSpace(_)
StripStarSpace(s) ==
    IF s = "" THEN s
    ELSE IF SubSeq(s, 1, 1) \in {"*", " "} THEN StripStarSpace(SubSeq(s, 2, Len(s)))
    ELSE IF SubSeq(s, Len(s), Len(s)) \in {"*", " "}
         THEN StripStarSpace(SubSeq(s, 1, Len(s) - 1))
    ELSE s

\* TypeBinder.is_opaque
is_opaque(t) ==
    LET cut(sp) == IF StartsWith(sp, "struct ") THEN SubSeq(sp, 8, Len(sp)) ELSE sp
    IN  IF is_pointer(t)
        THEN StripStarSpace(cut(t.spelling)) \in Generator.opaque_types
        ELSE IF t.is_alias
        THEN /\ EndsWith(cut(t.alias_spelling), "*")
             /\ StripStarSpace(cut(t.alias_spelling)) \in Generator.opaque_types
        ELSE FALSE

\* CursorBinder.parent: the binder of the semantic parent
Parent(c) ==
    IF c.scope = "" THEN [NoCursor EXCEPT !.kind = "TRANSLATION_UNIT"]
    ELSE Decl(c.scope)

\* CursorBinder.is_nested
is_nested(c) == ~is_tu(Parent(c))

\* CursorBinder.qualified_spelling (scope is the parents' part of it)
qualified_spelling(c) ==
    IF c.spelling = "" THEN ""
    ELSE IF c.scope = "" THEN c.spelling ELSE c.scope \o "::" \o c.spelling

\* CursorBinder.qualified_display_name
qualified_display_name(c) ==
    LET qname == IF c.display_name = "" THEN ""
                 ELSE IF c.scope = "" THEN c.display_name
                 ELSE c.scope \o "::" \o c.display_name
    IN  IF Contains(qname, "operator()") THEN SplitHead(qname, "()") \o "()"
        ELSE qname

\* CursorBinder.qualified_name
qualified_name(c) ==
    LET qname == IF c.display_name = "" THEN ""
                 ELSE IF c.scope = "" THEN c.display_name
                 ELSE c.scope \o "::" \o c.display_name
    IN  IF Contains(qname, "operator()") THEN SplitHead(qname, "()") \o "()"
        ELSE IF Contains(qname, "(") THEN SplitHead(qname, "(")
        ELSE qname

\* CursorBinder.python_name
python_name(c) ==
    IF c.pname # None THEN c.pname
    ELSE Replace(IF is_nested(c) THEN c.spelling ELSE qualified_spelling(c),
                 "::", "_")

\* CursorBinder.docs
docs(c) ==
    Replace(Replace(IF c.brief_comment = None THEN "None" ELSE c.brief_comment,
                    "\n", " "), "\"", "'")

\* CursorBinder.get_children_of_kind
get_children_of_kind(c, kinds, only_public) ==
    SelectSeqBy(c.children,
                {x \in Range(c.children) :
                    x.kind \in kinds /\ (only_public => is_public(x))})

bases(c) == get_children_of_kind(c, {"CXX_BASE_SPECIFIER"}, FALSE)
ctors(c) == get_children_of_kind(c, {"CONSTRUCTOR"}, FALSE)
dtors(c) == get_children_of_kind(c, {"DESTRUCTOR"}, FALSE)
fields(c) == get_children_of_kind(c, {"FIELD_DECL"}, FALSE)
enums(c) == get_children_of_kind(c, {"ENUM_DECL"}, FALSE)
methods(c) == get_children_of_kind(c, {"CXX_METHOD"}, FALSE)
nested_classes(c) == get_children_of_kind(c, {"CLASS_DECL", "STRUCT_DECL"}, FALSE)
parameters(c) == get_children_of_kind(c, {"PARM_DECL"}, FALSE)
enum_constants(c) == get_children_of_kind(c, {"ENUM_CONSTANT_DECL"}, FALSE)

\* CursorBinder.get_specialization
get_specialization(c) == Decl(c.specialization)

\* _get_bases inside CursorBinder._all_bases: the bases of _c, each followed
\* by the bases found behind it
RECURSIVE get_bases(_)
get_bases(_c) ==
    Flatten([i \in 1..Len(bases(_c)) |->
        LET base == bases(_c)[i]
            _decl == Decl(base.type.decl)
            _spec == get_specialization(_decl)
        IN  <<base>> \o
            (IF no_decl(_decl) THEN <<>>
             ELSE IF is_class_template(_decl) THEN get_bases(_decl)
             ELSE IF ~no_decl(_spec) /\ is_class_template(_spec) THEN get_bases(_spec)
             ELSE IF is_class(_decl) THEN get_bases(_decl)
             ELSE IF is_typedef(_decl)
                  THEN LET u == Decl(_decl.underlying_decl)
                           s == get_specialization(u)
                       IN  IF ~no_decl(s) /\ is_class_template(s)
                           THEN get_bases(s) ELSE get_bases(u)
             ELSE <<>>)])

\* CursorBinder._all_bases
all_bases(c) ==
    LET spec == get_specialization(c)
    IN  IF ~no_decl(spec) /\ is_class_template(spec)
        THEN get_bases(spec) ELSE get_bases(c)

\* CursorBinder.is_transient
is_transient(c) ==
    \/ c.type.spelling = "Standard_Transient"
    \/ \E i \in DOMAIN all_bases(c) :
          all_bases(c)[i].type.spelling = "Standard_Transient"

\* CursorBinder.holder_type
holder_type(c) ==
    IF is_transient(c) THEN "opencascade::handle" ELSE "std::unique_ptr"

\* CursorBinder.needs_nodelete
needs_nodelete(c) == \E i \in DOMAIN dtors(c) : ~is_public(dtors(c)[i])

\* CursorBinder.is_immutable
is_immutable(c) ==
    (IF is_pointer_like(c.type) THEN c.type.pointee ELSE c.type.spelling)
        \in Generator.immutable

\* CursorBinder.needs_inout_method
needs_inout_method(c) ==
    \E i \in DOMAIN parameters(c) :
        LET a == parameters(c)[i]
        IN  is_immutable(a) /\ ~a.type.is_const_qualified /\ is_pointer_like(a.type)

\* CursorBinder.needs_default_ctor.  The list holds the class and the base
\* specifiers of _all_bases; the definition looked up for each item is not
\* kept, so it is the item's own constructors that are looked at.
needs_default_ctor(c) ==
    IF c.is_abstract THEN FALSE
    ELSE LET items == <<c>> \o all_bases(c)
         IN  \A i \in DOMAIN items : ctors(items[i]) = <<>>

\* CursorBinder.has_unimplemented_methods (a value used for its truth)
has_unimplemented_methods(c) ==
    \/ \E i \in DOMAIN methods(c) : methods(c)[i].is_pure_virtual_method
    \/ LET defs == {Decl(all_bases(c)[i].type.decl) : i \in DOMAIN all_bases(c)}
           ms == UNION {Range(methods(b)) : b \in {d \in defs : ~is_null(d)}}
           all_virtual_methods == {m.spelling : m \in {x \in ms : x.is_pure_virtual_method}}
           all_methods == {m.spelling : m \in Range(methods(c))}
                            \cup {m.spelling : m \in {x \in ms : ~x.is_pure_virtual_method}}
       IN  all_virtual_methods \ all_methods # {}

\* CursorBinder.default_value
default_value(c) ==
    IF ~(is_param(c) \/ is_template_type_param(c)) THEN ""
    ELSE IF c.tokens = "" \/ ~Contains(c.tokens, "=") THEN ""
    ELSE SplitLast(c.tokens, "=")

\* CursorBinder.is_getter_method
is_getter_method(c) ==
    /\ is_cxx_method(c) /\ is_public(c) /\ is_lvalue(c.rtype)
    /\ \E i \in DOMAIN methods(Parent(c)) :
          LET method == methods(Parent(c))[i]
          IN  method.spelling = "Set" \o c.spelling /\ is_public(method)

\* CursorBinder.is_maybe_iterable
is_maybe_iterable(c) ==
    LET method_names == {f.spelling : f \in {m \in Range(methods(c)) : is_public(m)}}
    IN  "begin" \in method_names /\ "end" \in method_names

\* pybinder.common.PY_OPERATORS: the fixed table from operator spellings to
\* Python names
PY_OPERATORS ==
    [s \in {"operator+", "operator()", "operator=="} |->
        CASE s = "operator+" -> "__add__"
          [] s = "operator()" -> "__call__"
          [] s = "operator==" -> "__eq__"]

\* CursorBinder.is_operator
is_operator(c) ==
    IF is_function(c) \/ is_cxx_method(c) THEN c.spelling \in DOMAIN PY_OPERATORS
    ELSE FALSE

\* CursorBinder.is_excluded
is_excluded(c) ==
    LET matches(x, table) == \E pat \in table : fnmatch(x, pat) IN
    IF is_enum(c) THEN qualified_name(c) \in Generator.excluded_enums
    ELSE IF is_function(c) \/ is_constructor(c)
    THEN \/ matches(qualified_name(c), Generator.excluded_functions)
         \/ matches(qualified_display_name(c), Generator.excluded_functions)
         \/ matches(c.rtype.spelling, Generator.excluded_rtypes)
    ELSE IF is_class(c) \/ is_class_template(c)
    THEN qualified_name(c) \in Generator.excluded_classes
    ELSE IF is_typedef(c) THEN qualified_name(c) \in Generator.excluded_typedefs
    ELSE IF is_field(c) THEN qualified_name(c) \in Generator.excluded_fields
    ELSE IF is_cxx_method(c)
    THEN LET sfx == IF c.is_static_method THEN "_" ELSE "" IN
         \/ matches(qualified_name(c) \o sfx, Generator.excluded_functions)
         \/ matches(c.spelling \o sfx, Generator.excluded_fnames)
         \/ matches(qualified_display_name(c), Generator.excluded_functions)
         \/ matches(c.rtype.spelling, Generator.excluded_rtypes)
    ELSE FALSE

-----------------------------------------------------------------------------
(* The Generator's class attributes.                                       *)

\* The class attributes as the class body sets them
GeneratorAttrs ==
    [available_mods |-> {}, available_incs |-> {}, available_templates |-> {},
     excluded_classes |-> {}, excluded_functions |-> {}, excluded_rtypes |-> {},
     excluded_enums |-> {}, excluded_fnames |-> {}, excluded_mods |-> {},
     excluded_typedefs |-> {}, excluded_fields |-> {}, excluded_headers |-> {},
     excluded_namespaces |-> {"std"}, nodelete |-> {}, nested_classes |-> {},
     downcast_classes |-> {}, skipped |-> {}, immutable |-> {}, split |-> {},
     opaque_types |-> {}, namespace |-> <<>>, common_includes |-> {},
     excluded_bases |-> <<>>, import_guards |-> <<>>, plus_headers |-> <<>>,
     minus_headers |-> <<>>, python_names |-> <<>>, excluded_imports |-> <<>>,
     call_guards |-> <<>>, keep_alive |-> <<>>, before_type |-> <<>>,
     after_type |-> <<>>, patches |-> <<>>, return_policies |-> <<>>,
     before_module |-> <<>>, to_bind |-> {}, sort_order |-> <<>>,
     include_dirs |-> <<>>, compiler_args |-> <<>>]

\* Generator.__init__, and the to_bind set Generator.traverse derives from
\* the bind_* switches __init__ turns on
GeneratorNew(package_name, namespace, all_includes) ==
    [GeneratorAttrs EXCEPT
        !.namespace = namespace,
        !.common_includes = {"py" \o package_name \o "_Common.hxx"},
        !.available_incs = all_includes,
        !.available_mods = namespace[package_name],
        !.to_bind = {"ENUM_DECL", "FUNCTION_DECL", "STRUCT_DECL", "CLASS_DECL",
                     "TYPEDEF_DECL", "CLASS_TEMPLATE"}]

-----------------------------------------------------------------------------
(* Generator.process_config: the configuration file is read line by line  *)
(* and each directive is entered into its rule table as it is read.        *)

\* the characters str.strip removes
Whitespace == {" ", "\n", "\t"}

\* str.strip
RECURSIVE Strip(_)
Strip(s) ==
    IF s = "" THEN ""
    ELSE IF SubSeq(s, 1, 1) \in Whitespace THEN Strip(SubSeq(s, 2, Len(s)))
    ELSE IF SubSeq(s, Len(s), Len(s)) \in Whitespace THEN Strip(SubSeq(s, 1, Len(s) - 1))
    ELSE s

\* str.split(sep)
RECURSIVE Split(_, _)
Split(s, sep) ==
    IF IndexOf(s, sep) = 0 THEN <<s>>
    ELSE <<SubSeq(s, 1, IndexOf(s, sep) - 1)>>
            \o Split(SubSeq(s, IndexOf(s, sep) + Len(sep), Len(s)), sep)

\* str.split(sep, 1)
SplitOnce(s, sep) ==
    IF IndexOf(s, sep) = 0 THEN <<s>>
    ELSE <<SubSeq(s, 1, IndexOf(s, sep) - 1),
           SubSeq(s, IndexOf(s, sep) + Len(sep), Len(s))>>

Digits == <<"0", "1", "2", "3", "4", "5", "6", "7", "8", "9">>

\* int(s) succeeds: s is a non-empty run of decimal digits
IsInt(s) ==
    /\ s # ""
    /\ \A i \in 1..Len(s) : SubSeq(s, i, i) \in Range(Digits)

\* int(s)
RECURSIVE IntOf(_)
IntOf(s) ==
    IF s = "" THEN 0
    ELSE 10 * IntOf(SubSeq(s, 1, Len(s) - 1))
            + (CHOOSE d \in 0..9 : Digits[d + 1] = SubSeq(s, Len(s), Len(s)))

\* `if k in d: d[k].append(v) else: d[k] = [v]`
DictAppend(d, k, v) ==
    IF k \in DOMAIN d THEN [d EXCEPT ![k] = Append(@, v)] ELSE (k :> <<v>>) @@ d

\* `d[k] = v`
DictSet(d, k, v) == (k :> v) @@ d

\* the line was processed: the tables afterwards, and whether later
\* directives are still looked for in it (no `continue` was reached)
Processed(gen) == [gen |-> gen, raised |-> FALSE]

\* the processing of the line raised: the tables as they were at the raise
Raised(gen) == [gen |-> gen, raised |-> TRUE]

\* line.replace(token, '').strip()
Argument(line, token) == Strip(Replace(line, token, ""))

\* line.strip() for -class, line.strip().replace("[", "[[]") for -function
Escaped(x, escape) == IF escape THEN Replace(x, "[", "[[]") ELSE x

\* The -class and -function directives: the token may carry @platform
platform_directive(gen, line, platform, table, escape) ==
    IF Len(SplitOnce(line, " ")) # 2 THEN Raised(gen)
    ELSE IF ~Contains(SplitOnce(line, " ")[1], "@")
    THEN Processed([gen EXCEPT ![table] = @ \cup {Escaped(Strip(SplitOnce(line, " ")[2]), escape)}])
    ELSE IF Len(Split(SplitOnce(line, " ")[1], "@")) # 2 THEN Raised(gen)
    ELSE IF Split(SplitOnce(line, " ")[1], "@")[2] # platform THEN Processed(gen)
    ELSE Processed([gen EXCEPT ![table] = @ \cup {Escaped(Strip(SplitOnce(line, " ")[2]), escape)}])

\* A directive whose argument is added to a set
set_directive(gen, line, token, table) ==
    Processed([gen EXCEPT ![table] = @ \cup {Argument(line, token)}])

\* A directive `key <sep> value` whose value is appended to the list of its
\* key; split(sep) must give two parts, split(sep, 1) at least the separator
list_directive(gen, parts, table) ==
    IF Len(parts) # 2 THEN Raised(gen)
    ELSE Processed([gen EXCEPT ![table] = DictAppend(@, Strip(parts[1]), Strip(parts[2]))])

\* A directive `key --> value` whose value replaces the entry of its key
map_directive(gen, parts, table) ==
    IF Len(parts) # 2 THEN Raised(gen)
    ELSE Processed([gen EXCEPT ![table] = DictSet(@, Strip(parts[1]), Strip(parts[2]))])

\* str.replace("[", "[[]")
EscapeBracket(x) == Replace(x, "[", "[[]")


\* str.replace(find, rep, 1)
ReplaceFirst(s, find, rep) ==
    IF IndexOf(s, find) = 0 THEN s
    ELSE SubSeq(s, 1, IndexOf(s, find) - 1) \o rep
            \o SubSeq(s, IndexOf(s, find) + Len(find), Len(s))

\* The +sort directive: the list of the module is created before the
\* priority is converted
sort_directive(gen, parts) ==
    IF Len(parts) # 2 THEN Raised(gen)
    ELSE IF Len(Split(parts[2], "=")) # 2 THEN Raised(gen)
    ELSE IF ~IsInt(Strip(Split(parts[2], "=")[2]))
    THEN Raised([gen EXCEPT !.sort_order =
                    IF Strip(parts[1]) \in DOMAIN @ THEN @
                    ELSE DictSet(@, Strip(parts[1]), <<>>)])
    ELSE Processed([gen EXCEPT !.sort_order =
                    DictAppend(@, Strip(parts[1]),
                        <<Strip(Split(parts[2], "=")[1]),
                          IntOf(Strip(Split(parts[2], "=")[2]))>>)])

\* The +iguard directive: the guarded module joins the set of its module
iguard_directive(gen, parts) ==
    IF Len(parts) # 2 THEN Raised(gen)
    ELSE Processed([gen EXCEPT !.import_guards =
            IF Strip(parts[1]) \in DOMAIN @
            THEN [@ EXCEPT ![Strip(parts[1])] = @ \cup {Strip(parts[2])}]
            ELSE DictSet(@, Strip(parts[1]), {Strip(parts[2])})])

\* The +cguard directive
cguard_directive(gen, parts) ==
    IF Len(parts) # 2 THEN Raised(gen)
    ELSE Processed([gen EXCEPT !.call_guards =
            DictAppend(@, Strip(parts[1]),
                       "py::call_guard<Import" \o Strip(parts[2]) \o ">()")])

\* The +patch directive: the pair is whatever split('-->', 1) gives
patch_directive(gen, parts) ==
    IF Len(parts) # 2 THEN Raised(gen)
    ELSE Processed([gen EXCEPT !.patches =
            DictAppend(@, Strip(parts[1]), SplitOnce(Strip(parts[2]), "-->"))])

\* The directives looked for after +return_policy, in the order of the source
config_tail(gen, line) ==
    IF StartsWith(line, "+cguard")
    THEN cguard_directive(gen, SplitOnce(Argument(line, "+cguard"), "-->"))
    ELSE IF StartsWith(line, "+keep_alive")
    THEN map_directive(gen, SplitOnce(Argument(line, "+keep_alive"), "-->"), "keep_alive")
    ELSE IF StartsWith(line, "+nested") THEN set_directive(gen, line, "+nested", "nested_classes")
    ELSE IF StartsWith(line, "+downcast")
    THEN set_directive(gen, line, "+downcast", "downcast_classes")
    ELSE IF StartsWith(line, "+skip") THEN set_directive(gen, line, "+skip", "skipped")
    ELSE IF StartsWith(line, "+before_type")
    THEN list_directive(gen, SplitOnce(Strip(ReplaceFirst(line, "+before_type", "")), "-->"),
                        "before_type")
    ELSE IF StartsWith(line, "+after_type")
    THEN list_directive(gen, SplitOnce(Strip(ReplaceFirst(line, "+after_type", "")), "-->"),
                        "after_type")
    ELSE IF StartsWith(line, "+immutable")
    THEN set_directive(gen, line, "+immutable", "immutable")
    ELSE IF StartsWith(line, "+split") THEN set_directive(gen, line, "+split", "split")
    ELSE IF StartsWith(line, "+patch")
    THEN patch_directive(gen, SplitOnce(Argument(line, "+patch"), ":"))
    ELSE IF StartsWith(line, "+opaque")
    THEN Processed([gen EXCEPT !.opaque_types =
                        @ \cup {Strip(SubSeq(line, Len("+opaque") + 1, Len(line)))}])
    ELSE IF StartsWith(line, "+before_module")
    THEN list_directive(gen,
            SplitOnce(Strip(ReplaceFirst(line, "+before_module", "")), "-->"),
            "before_module")
    ELSE Processed(gen)

\* The +return_policy directive has no `continue`: the stripped line goes on
\* to the directives after it
return_policy_directive(gen, line) ==
    IF Len(SplitOnce(line, "-->")) # 2 THEN Raised(gen)
    ELSE config_tail([gen EXCEPT !.return_policies =
                         DictSet(@, Strip(SplitOnce(line, "-->")[1]),
                                 Strip(SplitOnce(line, "-->")[2]))],
                     line)

\* The body of the loop of process_config for one stripped line that is no
\* comment and not blank: the directives in the order of the source
config_directive(gen, line, platform) ==
    IF StartsWith(line, "+arg")
    THEN list_directive(gen, Split(Argument(line, "+arg"), ":"), "compiler_args")
    ELSE IF StartsWith(line, "+include")
    THEN Processed([gen EXCEPT !.include_dirs = Append(@, Argument(line, "+include"))])
    ELSE IF StartsWith(line, "+sort")
    THEN sort_directive(gen, Split(Argument(line, "+sort"), ":"))
    ELSE IF StartsWith(line, "-header*")
    THEN set_directive(gen, line, "-header*", "excluded_headers")
    ELSE IF StartsWith(line, "-class")
    THEN platform_directive(gen, line, platform, "excluded_classes", FALSE)
    ELSE IF StartsWith(line, "-typedef")
    THEN set_directive(gen, line, "-typedef", "excluded_typedefs")
    ELSE IF StartsWith(line, "-function*")
    THEN Processed([gen EXCEPT !.excluded_fnames =
                        @ \cup {EscapeBracket(Argument(line, "-function*"))}])
    ELSE IF StartsWith(line, "-function")
    THEN platform_directive(gen, line, platform, "excluded_functions", TRUE)
    ELSE IF StartsWith(line, "-rtype")
    THEN Processed([gen EXCEPT !.excluded_rtypes =
                        @ \cup {EscapeBracket(Argument(line, "-rtype"))}])
    ELSE IF StartsWith(line, "-enum") THEN set_directive(gen, line, "-enum", "excluded_enums")
    ELSE IF StartsWith(line, "-module")
    THEN set_directive(gen, line, "-module", "excluded_mods")
    ELSE IF StartsWith(line, "+iguard")
    THEN iguard_directive(gen, Split(Argument(line, "+iguard"), ":"))
    ELSE IF StartsWith(line, "+header")
    THEN list_directive(gen, Split(Argument(line, "+header"), ":"), "plus_headers")
    ELSE IF StartsWith(line, "-header")
    THEN list_directive(gen, Split(Argument(line, "-header"), ":"), "minus_headers")
    ELSE IF StartsWith(line, "+pname")
    THEN map_directive(gen, SplitOnce(Argument(line, "+pname"), "-->"), "python_names")
    ELSE IF StartsWith(line, "+nodelete")
    THEN set_directive(gen, line, "+nodelete", "nodelete")
    ELSE IF StartsWith(line, "-base")
    THEN list_directive(gen, SplitOnce(Argument(line, "-base"), ":"), "excluded_bases")
    ELSE IF StartsWith(line, "-field")
    THEN set_directive(gen, line, "-field", "excluded_fields")
    ELSE IF StartsWith(line, "-import")
    THEN list_directive(gen, SplitOnce(Argument(line, "-import"), ":"), "excluded_imports")
    ELSE IF StartsWith(line, "+return_policy")
    THEN return_policy_directive(gen, Argument(line, "+return_policy"))
    ELSE config_tail(gen, line)

\* One turn of the loop of process_config
config_line(gen, line, platform) ==
    IF StartsWith(Strip(line), "#") \/ Strip(line) = "" THEN Processed(gen)
    ELSE config_directive(gen, Strip(line), platform)

\* The rest of process_config from the line of index line_number (from 0, as
\* enumerate counts): the tables afterwards, and the line number the
\* RuntimeError names, 0 when none was raised
RECURSIVE config_loop(_, _, _, _)
\* An error that names the index enumerate gave
config_after_index(r, lines, platform, line_number) ==
    IF r.raised THEN [gen |-> r.gen, error |-> line_number]
    ELSE config_loop(r.gen, lines, platform, line_number + 1)

config_after(r, lines, platform, line_number) ==
    IF r.raised THEN [gen |-> r.gen, error |-> line_number + 1]
    ELSE config_loop(r.gen, lines, platform, line_number + 1)

config_loop(gen, lines, platform, line_number) ==
    IF line_number >= Len(lines) THEN [gen |-> gen, error |-> 0]
    ELSE config_after(config_line(gen, lines[line_number + 1], platform),
                      lines, platform, line_number)

\* Generator.process_config on the lines of the file
process_config(gen, lines, platform) == config_loop(gen, lines, platform, 0)

-----------------------------------------------------------------------------
(* Binders and modules.  binders maps each top-level declaration to the    *)
(* mutable attributes of its CursorBinder; mods is Generator._mods, an     *)
(* ordered dictionary, as the list of its Module values.                   *)

\* CursorBinder.module_name as __init__ derives it from the file name
module_name(c) ==
    IF c.filename = None THEN "__None__"
    ELSE IF Contains(c.filename, "_") THEN SplitHead(c.filename, "_")
    ELSE SplitHead(c.filename, ".")

\* CursorBinder.__init__: the attributes a new binder starts with
NewBinder ==
    [alias |-> None, skip |-> FALSE, grouped_binders |-> <<>>, src |-> <<>>,
     opaque |-> <<>>, macro |-> NoMacro, includes |-> <<>>, bind_name |-> None]

\* Module.__init__
NewModule(name) ==
    [name |-> name, enums |-> <<>>, funcs |-> <<>>, types |-> <<>>,
     templates |-> <<>>, sorted_binders |-> <<>>, includes |-> <<>>,
     imports |-> <<>>]

\* The cursor of a top-level declaration with the attributes of its binder
Binder(bs, n) == [ast.cursors[n] EXCEPT !.alias = bs[n].alias, !.macro = bs[n].macro]

\* name in cls._mods; the position of the module in the registry, 0 if absent
ModIndex(ms, name) ==
    LET at == {i \in DOMAIN ms : ms[i].name = name}
    IN  IF at = {} THEN 0 ELSE CHOOSE i \in at : TRUE

\* Generator.get_module: the registry afterwards (a new Module is added for
\* an available name that has none)
get_module_registry(ms, name) ==
    IF name \notin Generator.available_mods THEN ms
    ELSE IF ModIndex(ms, name) # 0 THEN ms
    ELSE Append(ms, NewModule(name))

\* Generator.get_namespace: the package that owns the module name, or None
get_namespace(name) ==
    LET owners == {ns \in DOMAIN Generator.namespace : name \in Generator.namespace[ns]}
    IN  IF owners = {} THEN None ELSE CHOOSE ns \in owners : TRUE

\* The alias traverse_binder gives a typedef: the definition recorded for its
\* canonical spelling, if any
typedef_alias(canon, spelling) ==
    IF spelling \in DOMAIN canon THEN canon[spelling] ELSE None

\* Generator.traverse_binder on one cursor (n is its key in ast); st holds the
\* registry, the binders and the canonical_types map of Generator.traverse
RECURSIVE traverse_binder(_, _)
traverse_binder(st, n) ==
    LET binder == ast.cursors[n]
        inc == binder.filename
        mod_name == module_name(binder)
        ms == get_module_registry(st.mods, mod_name)
        at == ModIndex(ms, mod_name)
        qname0 == qualified_name(binder)
        qname == IF qname0 = "" /\ is_enum(binder) THEN binder.type.spelling ELSE qname0
        spelling == binder.type.canonical
        add(list) == [ms EXCEPT ![at] = [@ EXCEPT ![list] = Append(@, n)]]
        with_binder(b) == (n :> b) @@ st.binders
        \* for binder in binder.get_children(): self.traverse_binder(...)
        walk[k \in 0..Len(binder.children)] ==
            IF k = 0 THEN st ELSE traverse_binder(walk[k - 1], binder.children[k])
    IN  IF ~binder.is_definition /\ ~StartsWith(binder.spelling, "IGESFile")
            /\ ~StartsWith(binder.spelling, "StepFile")
        THEN st
        ELSE IF is_namespace(binder)
        THEN IF StartsWith(binder.spelling, "__")
                \/ binder.spelling \in Generator.excluded_namespaces
             THEN st
             ELSE walk[Len(binder.children)]
        ELSE IF binder.kind \notin Generator.to_bind THEN st
        ELSE IF StartsWith(binder.spelling, "Handle_") THEN st
        ELSE IF is_function(binder) /\ StartsWith(binder.spelling, "operator") THEN st
        ELSE IF inc \in Generator.excluded_headers \/ inc \notin Generator.available_incs
        THEN st
        ELSE IF mod_name \notin Generator.available_mods THEN st
        \* from here on the module exists in the registry
        ELSE IF qname0 \in Generator.skipped THEN [st EXCEPT !.mods = ms]
        ELSE IF qname = "" THEN [st EXCEPT !.mods = ms]
        ELSE IF is_enum(binder)
        THEN [st EXCEPT !.mods = add("enums"), !.binders = with_binder(NewBinder)]
        ELSE IF is_function(binder)
        THEN [st EXCEPT !.mods = add("funcs"), !.binders = with_binder(NewBinder)]
        ELSE IF is_class(binder)
        THEN [st EXCEPT
                !.mods = add("types"),
                !.canonical_types = (spelling :> n) @@ @,
                !.binders = with_binder(
                    IF qname \in DOMAIN ast.macros
                    THEN [NewBinder EXCEPT !.macro = ast.macros[qname]]
                    ELSE NewBinder)]
        ELSE IF is_typedef(binder)
        THEN LET alias == typedef_alias(st.canonical_types, spelling) IN
             [st EXCEPT
                !.mods = add("types"),
                !.canonical_types =
                    IF spelling \in DOMAIN @ THEN @ ELSE (spelling :> n) @@ @,
                !.binders = with_binder([NewBinder EXCEPT !.alias = alias])]
        ELSE IF is_class_template(binder)
        THEN [st EXCEPT !.mods = add("templates"), !.binders = with_binder(NewBinder)]
        ELSE [st EXCEPT !.mods = ms]

-----------------------------------------------------------------------------
(* Ordering, includes and imports of a module.                             *)

\* `if x not in xs: xs.append(x)`
AppendNew(xs, x) == IF x \in Range(xs) THEN xs ELSE Append(xs, x)

\* xs with every element of ys appended that passes AppendNew
RECURSIVE ExtendNew(_, _)
ExtendNew(xs, ys) ==
    IF ys = <<>> THEN xs ELSE ExtendNew(AppendNew(xs, Head(ys)), Tail(ys))

\* A grouping that keeps every item on its own
group_binders_apart(items, keys, bs0) ==
    [first |-> <<>>, sorted |-> items, binders |-> bs0]

\* The grouping loops of Module.sort_binders: the first binder seen for a key
\* is appended to the order, every later one joins its grouped_binders and
\* is marked skip.  keys[k] is the key of items[k].
group_binders(items, keys, bs0) ==
    LET g[k \in 0..Len(items)] ==
            IF k = 0 THEN [first |-> <<>>, sorted |-> <<>>, binders |-> bs0]
            ELSE LET p == g[k - 1]
                     n == items[k]
                 IN  IF keys[k] \in DOMAIN p.first
                     THEN [p EXCEPT
                             !.binders = [@ EXCEPT
                                 ![p.first[keys[k]]].grouped_binders = Append(@, n),
                                 ![n].skip = TRUE]]
                     ELSE [p EXCEPT !.first = (keys[k] :> n) @@ @,
                                    !.sorted = Append(@, n)]
    IN  g[Len(items)]

\* priority = 10000 in sort_fn
DefaultPriority == 10000

\* sort_fn with `priority = 0` where Module.sort_binders has 10000
sort_priority_zero(sort_order, spelling) ==
    LET hits == {i \in DOMAIN sort_order : Contains(spelling, sort_order[i][1])}
    IN  IF hits = {} THEN 0
        ELSE sort_order[CHOOSE i \in hits : \A j \in hits : j <= i][2]

\* sort_fn inside Module.sort_binders: the priority of the last pattern of
\* the module's sort order that the spelling contains
sort_priority(sort_order, spelling) ==
    LET hits == {i \in DOMAIN sort_order : Contains(spelling, sort_order[i][1])}
    IN  IF hits = {} THEN DefaultPriority
        ELSE sort_order[CHOOSE i \in hits : \A j \in hits : j <= i][2]

\* list.sort(key=sort_fn): by priority, then by the position before sorting
sort_by_priority(sort_order, xs) ==
    LET prio(k) == sort_priority(sort_order, ast.cursors[xs[k]].spelling)
        before(j, k) == prio(j) < prio(k) \/ (prio(j) = prio(k) /\ j < k)
        rank(k) == 1 + Cardinality({j \in DOMAIN xs : before(j, k)})
    IN  [i \in DOMAIN xs |-> xs[CHOOSE k \in DOMAIN xs : rank(k) = i]]

\* Module.sort_binders: the module and the binders afterwards
sort_binders(mod, bs) ==
    LET ge == group_binders(mod.enums,
                  [k \in DOMAIN mod.enums |-> ast.cursors[mod.enums[k]].filename], bs)
        gf == group_binders(mod.funcs,
                  [k \in DOMAIN mod.funcs |-> ast.cursors[mod.funcs[k]].spelling],
                  ge.binders)
        natural == mod.sorted_binders \o ge.sorted \o gf.sorted \o mod.types
        sort_order == IF mod.name \in DOMAIN Generator.sort_order
                      THEN Generator.sort_order[mod.name] ELSE <<>>
    IN  [mod |-> [mod EXCEPT !.sorted_binders =
                     IF sort_order # <<>> THEN sort_by_priority(sort_order, natural)
                     ELSE natural],
         binders |-> gf.binders]

\* CursorBinder.build_includes: binder.includes afterwards (also the value
\* returned); own is binder.includes before
binder_build_includes(c, own) ==
    LET qname == qualified_name(c)
        plus == IF qname \in DOMAIN Generator.plus_headers
                THEN Generator.plus_headers[qname] ELSE <<>>
        wanted(f) ==
            /\ f # None
            /\ f \in Generator.available_incs
            /\ f \notin Generator.excluded_headers
            /\ ~(qname \in DOMAIN Generator.minus_headers
                    /\ f \in Range(Generator.minus_headers[qname]))
        refs == SelectSeqBy(c.refs, {f \in Range(c.refs) : wanted(f)})
        includes == AppendNew(ExtendNew(ExtendNew(<<>>, plus), refs), c.filename)
        hxx(inc) == IF Contains(inc, ".lxx") THEN Replace(inc, ".lxx", ".hxx")
                    ELSE IF Contains(inc, ".gxx") THEN Replace(inc, ".gxx", ".hxx")
                    ELSE inc
    IN  ExtendNew(own, [i \in DOMAIN includes |-> hxx(includes[i])])

\* list(a set): the elements in the order the iteration gives them
RECURSIVE SetToList(_)
SetToList(S) ==
    IF S = {} THEN <<>>
    ELSE LET x == CHOOSE x \in S : TRUE IN <<x>> \o SetToList(S \ {x})

\* Module.build_includes: the module and the binders afterwards
module_build_includes(mod, bs) ==
    LET minus_headers ==
            IF mod.name \in DOMAIN Generator.minus_headers
            THEN Range(Generator.minus_headers[mod.name]) ELSE {}
        plus == IF mod.name \in DOMAIN Generator.plus_headers
                THEN Generator.plus_headers[mod.name] ELSE <<>>
        start == ExtendNew(SetToList(Generator.common_includes), plus)
        all_binders == mod.sorted_binders \o mod.templates
        \* [binder] + binder.grouped_binders for every binder, in order
        each == Flatten([i \in DOMAIN all_binders |->
                    <<all_binders[i]>> \o bs[all_binders[i]].grouped_binders])
        step[k \in 0..Len(each)] ==
            IF k = 0 THEN [includes |-> start, binders |-> bs]
            ELSE LET p == step[k - 1]
                     n == each[k]
                     temp == binder_build_includes(ast.cursors[n], p.binders[n].includes)
                     fresh == SelectSeqBy(temp,
                                 {f \in Range(temp) :
                                     f \notin minus_headers
                                     /\ f \notin Generator.excluded_headers})
                 IN  [includes |-> IF is_class_template(ast.cursors[n]) THEN p.includes
                                   ELSE ExtendNew(p.includes, fresh),
                      binders |-> [p.binders EXCEPT ![n].includes = temp]]
        done == step[Len(each)]
    IN  [mod |-> [mod EXCEPT !.includes = done.includes], binders |-> done.binders]

\* Generator.build_imports for one module without the checks on the name
\* before "# Add import"
module_build_imports_unchecked(mod) ==
    LET other_name(inc_file) ==
            IF Contains(inc_file, "_") THEN SplitHead(inc_file, "_")
            ELSE SplitHead(inc_file, ".")
        names == [i \in DOMAIN mod.includes |-> other_name(mod.includes[i])]
    IN  ExtendNew(mod.imports, names)

\* The body of Generator.build_imports for one module: mod.imports afterwards
module_build_imports(mod) ==
    LET other_name(inc_file) ==
            IF Contains(inc_file, "_") THEN SplitHead(inc_file, "_")
            ELSE SplitHead(inc_file, ".")
        wanted(name) ==
            /\ get_namespace(name) # None
            /\ mod.name # name
            /\ ~(mod.name \in DOMAIN Generator.excluded_imports
                    /\ name \in Range(Generator.excluded_imports[mod.name]))
        names == [i \in DOMAIN mod.includes |-> other_name(mod.includes[i])]
    IN  ExtendNew(mod.imports, SelectSeqBy(names, {x \in Range(names) : wanted(x)}))

-----------------------------------------------------------------------------
(* Code generation: one operator per generate_* function, giving the list  *)
(* of source lines the function returns.                                   *)

\* list(s): the characters of a str, which is what `src += s` adds to a list
Chars(s) == [i \in 1..Len(s) |-> SubSeq(s, i, i)]

\* ' '.join(['//', src]): a line commented out
Commented(line) == "// " \o line

\* generate_enum
generate_enum(binder) ==
    LET qname == qualified_name(binder)
        parent == binder.parent_name
        name == IF qname \in DOMAIN Generator.python_names
                THEN Generator.python_names[qname] ELSE python_name(binder)
        anon == \/ Contains(binder.type.spelling, "anonymous enum")
                \/ Contains(binder.type.spelling, "unnamed enum")
        \* qname of a constant of an anonymous enum
        anon_qname(e) ==
            LET at == {IndexOf(e.type.spelling, "(anonymous"),
                       IndexOf(e.type.spelling, "(unnamed")} \ {0}
                indx == IF at = {} THEN 0
                        ELSE (CHOOSE i \in at : \A j \in at : i <= j) - 1
            IN  IF at # {} /\ indx # 0
                THEN SubSeq(e.type.spelling, 1, indx) \o e.spelling
                ELSE qualified_name(e)
        anon_line(e) ==
            parent \o ".attr(\"" \o e.spelling \o "\") = py::cast(int("
                \o (IF anon_qname(e) # "" THEN anon_qname(e) ELSE e.spelling)
                \o "));\n"
        \* qname of a constant of a named enum
        value_qname(e) ==
            IF StartsWith(qualified_name(e), "::")
            THEN binder.type.spelling \o qualified_name(e)
            ELSE IF ~Contains(qualified_name(e), "::")
            THEN e.type.spelling \o "::" \o e.spelling
            ELSE qualified_name(e)
        value_line(e) ==
            "\t.value(\"" \o e.spelling \o "\", " \o value_qname(e) \o ")\n"
        name2 == IF name = "" THEN Replace(binder.type.spelling, "::", "_") ELSE name
        qname2 == IF qname = "" THEN binder.type.spelling ELSE qname
        consts == enum_constants(binder)
        src == IF anon
               THEN [i \in 1..Len(consts) |-> anon_line(consts[i])]
               ELSE <<"py::enum_<" \o qname2 \o ">(" \o parent \o ", \"" \o name2
                        \o "\", \"" \o docs(binder) \o "\")\n">>
                    \o [i \in 1..Len(consts) |-> value_line(consts[i])]
                    \o <<"\t.export_values();\n">>
    IN  IF is_excluded(binder) THEN <<"/*\n">> \o src \o <<"*/\n">> ELSE src

\* function_signature
function_signature(binder) ==
    LET ps == parameters(binder)
        arg_type(arg) ==
            IF is_opaque(arg.type) THEN "void* /* " \o arg.type.spelling \o " */"
            ELSE IF arg.type.is_alias THEN arg.type.alias_spelling
            ELSE arg.type.spelling
    IN  [nargs |-> Len(ps),
         ndefaults |-> Cardinality({i \in DOMAIN ps : default_value(ps[i]) # ""}),
         args_name |-> [i \in DOMAIN ps |-> ps[i].spelling],
         args_type |-> [i \in DOMAIN ps |-> arg_type(ps[i])],
         defaults |-> [i \in DOMAIN ps |-> default_value(ps[i])],
         is_array_like |-> [i \in DOMAIN ps |-> is_array_like(ps[i].type)]]

\* ''.join(', py::arg("name")' for name in names)
py_args_of(names) ==
    Join([i \in DOMAIN names |-> ", py::arg(\"" \o names[i] \o "\")"])

\* generate_function
generate_function(binder) ==
    LET fname == binder.spelling
        qname == qualified_name(binder)
        rtype == IF is_opaque(binder.rtype)
                 THEN "void* /* " \o binder.rtype.spelling \o " */"
                 ELSE binder.rtype.spelling
        sig == function_signature(binder)
        signature == JoinSep(", ", sig.args_type)
        prefix == IF is_excluded(binder) THEN "// excluded // " ELSE ""
        ps == parameters(binder)
        arg_txt(arg) ==
            "py::arg(\"" \o arg.spelling \o "\")"
                \o (IF default_value(arg) # "" THEN "=" \o default_value(arg) ELSE "")
        args == IF ps = <<>> THEN ""
                ELSE ", " \o JoinSep(", ", [i \in DOMAIN ps |-> arg_txt(ps[i])])
        interface == "(" \o rtype \o " (*) (" \o signature \o "))"
        line == prefix \o "mod.def(\"" \o fname \o "\", " \o interface \o " &"
                    \o qname \o ", \"" \o docs(binder) \o "\"" \o args \o ");\n\n"
    IN  IF TRUE \in Range(sig.is_array_like) THEN <<Commented(line)>> ELSE <<line>>

\* The constructor binding generate_ctor emits for the first i arguments
ctor_binding(binder, sig, i) ==
    LET signature == JoinSep(", ", SubSeq(sig.args_type, 1, i))
        src == binder.parent_name \o ".def(py::init<" \o signature \o ">()"
                  \o py_args_of(SubSeq(sig.args_name, 1, i)) \o ");\n"
    IN  IF is_excluded(binder) \/ binder.is_move_constructor
            \/ Contains(signature, "&&")
        THEN Commented(src) ELSE src

\* A range(nargs - ndefaults, nargs + 1) that forgets the reduced arities
arities_full_only(nargs, ndefaults) == <<nargs>>

\* range(nargs - ndefaults, nargs + 1), as a list
arities(nargs, ndefaults) ==
    [k \in 1..(ndefaults + 1) |-> nargs - ndefaults + k - 1]

\* generate_ctor
generate_ctor(binder) ==
    LET sig == function_signature(binder)
        r == arities(sig.nargs, sig.ndefaults)
    IN  [k \in DOMAIN r |-> ctor_binding(binder, sig, r[k])]

\* generate_field
generate_field(binder) ==
    LET name == binder.spelling
        qname == qualified_name(binder)
        type_ == IF binder.type.is_const_qualified THEN "readonly" ELSE "readwrite"
        prefix == IF is_excluded(binder) THEN "// " \o binder.parent_name
                  ELSE binder.parent_name
        ftype == binder.type.spelling
        parent == qualified_name(Parent(binder))
        reader == "[](" \o parent \o "& self) -> " \o ftype \o " { return self."
                     \o name \o "; }"
        writer == "[](" \o parent \o "& self, const " \o ftype
                     \o " value) { self." \o name \o " = value; }"
        line == IF binder.is_bitfield
                THEN IF type_ = "_readonly"
                     THEN prefix \o ".def_property_readonly(\"" \o name \o "\", "
                            \o reader \o ", \"" \o docs(binder) \o "\");\n"
                     ELSE prefix \o ".def_property(\"" \o name \o "\", " \o reader
                            \o ", " \o writer \o ", \"" \o docs(binder) \o "\");\n"
                ELSE prefix \o ".def_" \o type_ \o "(\"" \o name \o "\", &" \o qname
                        \o ", \"" \o docs(binder) \o "\");\n"
    IN  IF is_array_like(binder.type) THEN <<Commented(line)>> ELSE <<line>>

\* generate_immutable_inout_method
generate_immutable_inout_method(binder, qname) ==
    LET ps == parameters(binder)
        type_of(arg) == IF arg.type.is_alias THEN arg.type.alias_spelling
                        ELSE arg.type.spelling
        \* unnamed arguments are named a0, a1, ... in order
        unnamed_before(k) == Cardinality({j \in 1..(k - 1) : ps[j].spelling = ""})
        name_of(k) == IF ps[k].spelling = "" THEN "a" \o ToString(unnamed_before(k))
                      ELSE ps[k].spelling
        is_out(arg) == /\ ~arg.type.is_const_qualified
                       /\ is_immutable(arg)
                       /\ is_pointer_like(arg.type)
        outs == SelectSeqBy([k \in DOMAIN ps |-> k], {k \in DOMAIN ps : is_out(ps[k])})
        args_decl == JoinSep(", ", [k \in DOMAIN ps |-> type_of(ps[k]) \o " " \o name_of(k)])
        delimiter == IF ps # <<>> THEN ", " ELSE ""
        prefix == IF is_class_template(Parent(binder))
                  THEN qualified_name(Parent(binder))
                  ELSE Parent(binder).type.spelling
        interface_txt ==
            IF binder.is_static_method THEN "(" \o args_decl \o ")"
            ELSE "(" \o prefix \o " &self" \o delimiter \o args_decl \o ")"
        is_void == binder.rtype.spelling = "void"
        args_txt == JoinSep(", ", [k \in DOMAIN ps |-> name_of(k)])
        fcall == IF binder.is_static_method THEN qname ELSE "self." \o binder.spelling
        rtype == binder.rtype.spelling
        func_txt == IF is_void THEN "{ " \o fcall \o "(" \o args_txt \o "); "
                    ELSE "{ " \o rtype \o " rv = " \o fcall \o "(" \o args_txt \o "); "
        return_args == JoinSep(", ", [k \in DOMAIN outs |-> name_of(outs[k])])
        return_types == JoinSep(", ", [k \in DOMAIN outs |-> type_of(ps[outs[k]])])
        return_txt ==
            IF is_void
            THEN IF Len(outs) > 1
                 THEN "return std::tuple<" \o return_types \o ">(" \o return_args \o "); }"
                 ELSE "return " \o return_args \o "; }"
            ELSE "return std::tuple<" \o rtype \o ", " \o return_types \o ">(rv, "
                    \o return_args \o "); }"
    IN  "[]" \o interface_txt \o func_txt \o return_txt

\* A generate_method that forgets the in/out adapter
needs_inout_never(binder) == FALSE

\* needs_inout = binder.needs_inout_method, as generate_method reads it
method_needs_inout(binder) == needs_inout_method(binder)

\* generate_method
generate_method(binder) ==
    LET is_static == IF binder.is_static_method THEN "_static" ELSE ""
        fname0 == IF is_static # "" THEN binder.spelling \o "_" ELSE binder.spelling
        prefix == IF is_excluded(binder) THEN "// excluded // " \o binder.parent_name
                  ELSE IF binder.is_pure_virtual_method
                  THEN "// virtual // " \o binder.parent_name
                  ELSE binder.parent_name
        rtype == IF is_opaque(binder.rtype)
                 THEN "void* /* " \o binder.rtype.spelling \o " */"
                 ELSE IF binder.rtype.is_alias THEN binder.rtype.alias_spelling
                 ELSE binder.rtype.spelling
        qname == qualified_name(binder)
        ptr == IF ~binder.is_static_method
               THEN qualified_name(Parent(binder)) \o "::*" ELSE "*"
        is_const == IF binder.is_const_method THEN " const" ELSE ""
        fname == IF is_operator(binder) THEN PY_OPERATORS[fname0] ELSE fname0
        is_op == IF is_operator(binder) THEN "py::is_operator(), " ELSE ""
        sig == function_signature(binder)
        return_policy ==
            IF qname \in DOMAIN Generator.return_policies
            THEN ", py::return_value_policy::" \o Generator.return_policies[qname]
            ELSE IF is_getter_method(binder)
            THEN ", py::return_value_policy::reference_internal"
            ELSE ""
        keep_alive ==
            IF qname \in DOMAIN Generator.keep_alive
            THEN ", py::keep_alive<" \o Generator.keep_alive[qname] \o ">()"
            ELSE ""
        cguards ==
            IF qname \in DOMAIN Generator.call_guards
            THEN ", " \o JoinSep(", ", Generator.call_guards[qname])
            ELSE ""
        array == TRUE \in Range(sig.is_array_like)
        \* the single adapter binding
        inout_src ==
            LET src == prefix \o ".def" \o is_static \o "(\"" \o fname \o "\", "
                          \o generate_immutable_inout_method(binder, qname)
                          \o ", \"" \o docs(binder) \o "\""
                          \o py_args_of(sig.args_name) \o ");\n"
            IN  IF array THEN Commented(src) ELSE src
        \* the binding of the full signature
        full_src ==
            LET signature == JoinSep(", ", sig.args_type)
                src == prefix \o ".def" \o is_static \o "(\"" \o fname \o "\", ("
                          \o rtype \o " (" \o ptr \o ")(" \o signature \o ")"
                          \o is_const \o ") &" \o qname \o ", " \o is_op \o "\""
                          \o docs(binder) \o "\"" \o py_args_of(sig.args_name)
                          \o return_policy \o keep_alive \o cguards \o ");\n"
            IN  IF array \/ Contains(signature, "&&") THEN Commented(src) ELSE src
        \* the lambda binding of the first i arguments
        lambda_src(i) ==
            LET self_part == IF is_static # "" THEN ""
                             ELSE SubSeq(qname, 1, Len(qname) - Len(SplitLast(qname, "::")) - 2)
                                    \o " &self"
                typed == [j \in 1..i |-> sig.args_type[j] \o " a" \o ToString(j - 1)]
                signature == JoinSep(", ", (IF self_part = "" THEN <<>> ELSE <<self_part>>)
                                              \o typed)
                call == JoinSep(", ", [j \in 1..i |-> "a" \o ToString(j - 1)])
                qname_ == IF is_static = "" THEN "self." \o fname ELSE qname
                src0 == prefix \o ".def" \o is_static \o "(\"" \o fname \o "\", []("
                           \o signature \o ") -> " \o rtype \o " { return " \o qname_
                           \o "(" \o call \o "); }" \o cguards \o ");\n"
                src == IF is_op # "" THEN Commented(src0) ELSE src0
            IN  IF array \/ Contains(signature, "&&") THEN Commented(src) ELSE src
        r == arities(sig.nargs, sig.ndefaults)
    IN  IF r # <<>> /\ method_needs_inout(binder) THEN <<inout_src>>
        ELSE [k \in DOMAIN r |-> IF r[k] = sig.nargs THEN full_src ELSE lambda_src(r[k])]

\* MacroForHandle.macro2func
macro2func ==
    [m \in {"DEFINE_HARRAY1", "DEFINE_HARRAY2", "DEFINE_HSEQUENCE"} |->
        CASE m = "DEFINE_HARRAY1" -> "bind_Define_HArray1"
          [] m = "DEFINE_HARRAY2" -> "bind_Define_HArray2"
          [] m = "DEFINE_HSEQUENCE" -> "bind_Define_HSequence"]

\* MacroForHandle.generate
macro_generate(macro) ==
    macro2func[macro.name] \o "<" \o macro.type1 \o ", " \o macro.type2
        \o ">(mod, \"" \o macro.type1 \o "\");"

\* MacroForHandle.generate raises KeyError: the macro is kept under the
\* spelling of its first token, and macro2func knows the upper-case names
macro_raises(macro) == macro.name \notin DOMAIN macro2func

\* MacroForHandle.headers
macro_headers(macro) == <<macro2func[macro.name] \o ".hxx">>

\* The holder generate_class settles for a class that is not transient:
\* py::nodelete for a hidden destructor or a nodelete rule
class_nodelete(binder, qname) ==
    needs_nodelete(binder) \/ qname \in Generator.nodelete

\* The holder check of generate_class on one base: TRUE when the base's
\* holder type differs from the class's and the base is dropped
holder_mismatch(holder_type_, base) ==
    LET holder1 == holder_type(Decl(base.type.decl))
        holder2 == holder_type(Decl(base.type.canonical_decl))
        base_holder_type ==
            IF "opencascade::handle" \in {holder1, holder2}
            THEN "opencascade::handle" ELSE "std::unique_ptr"
    IN  holder_type_ # base_holder_type

\* generate_class, "# Text before type"
class_src_before(qname) ==
    IF qname \in DOMAIN Generator.before_type
    THEN <<"// Before type\n">>
         \o [i \in DOMAIN Generator.before_type[qname] |->
                Generator.before_type[qname][i] \o "\n"]
         \o <<"\n">>
    ELSE <<>>

\* generate_class, "# Variable names": the name of the py::class_ variable
class_cls(binder, source_name) ==
    IF is_nested(binder)
    THEN "cls_" \o python_name(Parent(binder)) \o "_" \o source_name
    ELSE "cls_" \o source_name

\* generate_class, "# Holder": the holder template argument
class_holder(transient, nodel, qname) ==
    IF transient THEN ", opencascade::handle<" \o qname \o ">"
    ELSE IF nodel THEN ", std::unique_ptr<" \o qname \o ", py::nodelete>"
    ELSE ""

\* generate_class, "# Excluded base classes"
class_excluded_bases(name, qname) ==
    IF qname \in DOMAIN Generator.excluded_bases
    THEN Generator.excluded_bases[qname]
    ELSE IF name \in DOMAIN Generator.excluded_bases
    THEN Generator.excluded_bases[name]
    ELSE {}

\* generate_class, "# Base classes": the names appended to base_names
class_base_names(bases_classes, excluded_bases, holder_type_) ==
    LET kept == {base \in Range(bases_classes) :
                    /\ is_public(base)
                    /\ base.type.spelling \notin excluded_bases
                    /\ base.type.spelling \notin Generator.excluded_classes
                    /\ ~holder_mismatch(holder_type_, base)}
        kept_bases == SelectSeqBy(bases_classes, kept)
    IN  [i \in DOMAIN kept_bases |-> kept_bases[i].type.spelling]

\* generate_class: the py::class_<...> line
class_registration(binder, qname, cls, holder, nbases, base_names) ==
    LET bases_txt == IF base_names # <<>> THEN ", " \o JoinSep(", ", base_names) ELSE ""
        multi_base == IF nbases > 1 /\ Len(base_names) < nbases
                      THEN ", py::multiple_inheritance()" ELSE ""
        name_ == IF qname \in DOMAIN Generator.python_names
                 THEN "\"" \o Generator.python_names[qname] \o "\""
                 ELSE IF is_class_template(binder) THEN "name.c_str()"
                 ELSE "\"" \o python_name(binder) \o "\""
        parent == IF is_nested(binder) /\ qname \in Generator.nested_classes
                  THEN "cls_" \o python_name(Parent(binder)) ELSE "mod"
        local == IF is_class_template(binder) \/ is_class_template(Parent(binder))
                 THEN ", local"
                 ELSE IF binder.alias # None THEN ", py::module_local()" ELSE ""
        tname == IF Contains(qname, "::") THEN "typename " \o qname ELSE qname
    IN  "py::class_<" \o tname \o holder \o bases_txt \o "> " \o cls
            \o "(" \o parent \o ", " \o name_ \o ", \"" \o docs(binder)
            \o "\"" \o multi_base \o local \o ");\n"

\* `if item.is_public: item.parent_name = cls`, for the items of one kind
class_public_items(items, cls) ==
    LET public == SelectSeqBy(items, {x \in Range(items) : is_public(x)})
    IN  [i \in DOMAIN public |-> [public[i] EXCEPT !.parent_name = cls]]

\* generate_class, "# Check for default constructor": the constructor lines
\* given the lines of the declared constructors
class_src_ctor(binder, qname, cls, declared_ctor) ==
    IF binder.is_abstract THEN <<>>
    ELSE IF declared_ctor = <<>> /\ needs_default_ctor(binder)
            /\ qname \notin Generator.excluded_functions
    THEN IF has_unimplemented_methods(binder)
         THEN <<"// abstract virtual methods // " \o cls \o ".def(py::init<>());\n">>
         ELSE <<cls \o ".def(py::init<>());\n">>
    ELSE declared_ctor

\* `if part: part.insert(0, title)`
class_titled(title, part) == IF part = <<>> THEN <<>> ELSE <<title>> \o part

\* generate_class, "# Check for an iterable type"; `src += '<text>'` on a
\* list appends the characters of the text
class_src_iter(binder, qname, cls) ==
    IF is_maybe_iterable(binder)
    THEN Chars(cls \o ".def(\"__iter__\", [](const " \o qname
            \o " &self) { return py::make_iterator(self.begin(), self.end()); }, py::keep_alive<0, 1>());\n")
    ELSE <<>>

\* generate_class, "# Text after type"
class_src_after(qname) ==
    IF qname \in DOMAIN Generator.after_type
    THEN <<"\n// After type\n">>
         \o Flatten([i \in DOMAIN Generator.after_type[qname] |->
                        <<Generator.after_type[qname][i], "\n">>])
    ELSE <<>>

\* generate_class, "# Comment if excluded"
class_commented(excluded, src) ==
    IF excluded THEN <<"/*\n">> \o src \o <<"*/\n">> ELSE src

RECURSIVE generate_class(_)

\* generate_class, "# Nested classes"
class_src_nested(nested_items, src_nested) ==
    IF nested_items = <<>> THEN <<>> ELSE <<"\n// Nested classes\n">> \o src_nested

\* generate_class past the early returns: the lines for a class of that name,
\* qualified name and py::class_ variable
class_src(binder, name, qname, cls, transient) ==
    LET ctor_items == class_public_items(ctors(binder), cls)
        field_items == class_public_items(fields(binder), cls)
        method_items == class_public_items(methods(binder), cls)
        enum_items == class_public_items(enums(binder), cls)
        nested_items ==
            SelectSeqBy(nested_classes(binder),
                {n \in Range(nested_classes(binder)) :
                    qualified_name(n) \in Generator.nested_classes /\ is_public(n)})
        src_nested ==
            Flatten([i \in DOMAIN nested_items |-> generate_class(nested_items[i])])
    IN  class_src_before(qname)
        \o <<class_registration(binder, qname, cls,
                class_holder(transient, ~transient /\ class_nodelete(binder, qname), qname),
                Len(bases(binder)),
                class_base_names(bases(binder), class_excluded_bases(name, qname),
                    IF transient THEN "opencascade::handle" ELSE "std::unique_ptr"))>>
        \o class_titled("\n// Constructors\n",
                class_src_ctor(binder, qname, cls,
                    Flatten([i \in DOMAIN ctor_items |-> generate_ctor(ctor_items[i])])))
        \o class_titled("\n// Fields\n",
                Flatten([i \in DOMAIN field_items |-> generate_field(field_items[i])]))
        \o class_titled("\n// Methods\n",
                Flatten([i \in DOMAIN method_items |-> generate_method(method_items[i])]))
        \o class_src_iter(binder, qname, cls)
        \o class_titled("\n// Enums\n",
                Flatten([i \in DOMAIN enum_items |-> generate_enum(enum_items[i])]))
        \o class_src_nested(nested_items, src_nested)
        \o class_src_after(qname)

\* generate_class
generate_class(binder) ==
    IF binder.macro # NoMacro THEN <<macro_generate(binder.macro), "\n">>
    ELSE IF binder.children = <<>> THEN <<>>
    ELSE class_commented(is_excluded(binder),
            class_src(binder, python_name(binder), qualified_name(binder),
                class_cls(binder,
                    IF qualified_name(binder) \in DOMAIN Generator.python_names
                    THEN Generator.python_names[qualified_name(binder)]
                    ELSE python_name(binder)),
                is_transient(binder)))

\* generate_typedef2: the source lines, the template binding functions the
\* lines call, and the opaque definitions they need
generate_typedef2(binder) ==
    LET alias == binder.alias
        decl0 == Decl(binder.type.canonical_decl)
        template == get_specialization(decl0)
        decl == [decl0 EXCEPT !.alias = alias]
        local == IF alias # None THEN ", py::module_local()"
                 ELSE ", py::module_local(false)"
        canonical == binder.type.canonical
        record == binder.type.canonical_kind = "RECORD"
    IN  IF alias # None /\ module_name(binder) = module_name(Decl(alias))
        THEN [src |-> <<"if (py::hasattr(mod, \"" \o python_name(Decl(alias)) \o "\")) {\n",
                        "\tmod.attr(\"" \o python_name(binder) \o "\") = mod.attr(\""
                            \o python_name(Decl(alias)) \o "\");\n",
                        "}\n">>,
              bind_template |-> None, extra |-> <<>>]
        ELSE IF record /\ is_class_template(template)
        THEN IF StartsWith(canonical, "std::vector")
             THEN [src |-> <<"py::bind_vector<" \o canonical \o ">(" \o binder.parent_name
                                \o ", \"" \o python_name(binder) \o "\");\n">>,
                   bind_template |-> <<>>,
                   extra |-> <<"PYBIND11_MAKE_OPAQUE(" \o canonical \o ")\n">>]
             ELSE [src |-> <<"bind_" \o canonical \o "(" \o binder.parent_name \o ", \""
                                \o python_name(binder) \o "\"" \o local \o ");\n">>,
                   bind_template |-> <<"bind_" \o decl.spelling>>,
                   extra |-> <<>>]
        ELSE IF record /\ is_class(decl)
        THEN [src |-> generate_class([decl EXCEPT !.pname = binder.spelling]),
              bind_template |-> <<>>, extra |-> <<>>]
        ELSE [src |-> <<>>, bind_template |-> <<>>, extra |-> <<>>]

\* patch_typenames
patch_typenames(binder, src) ==
    [i \in DOMAIN src |->
        Replace(src[i], qualified_spelling(binder) \o "::",
                "typename " \o qualified_name(binder) \o "::")]

\* generate_class_template
generate_class_template(binder) == patch_typenames(binder, generate_class(binder))

-----------------------------------------------------------------------------
(* overwrite_if_changed                                                     *)

\* io.StringIO.getvalue(): everything written, concatenated
getvalue(source) == Join(source)

\* str.encode(): the text as a bytes object.  The model's alphabet is ASCII,
\* where UTF-8 keeps every code unit; the bytes object is kept apart from str.
encode(text) == [bytes |-> text]

\* A digest that collides: only the length of the data decides it.
sha256_weak(data) == [hexdigest |-> Len(data.bytes)]

\* hashlib.sha256(data).hexdigest(); SHA-256 is taken to be collision free.
sha256(data) == [hexdigest |-> data.bytes]

\* os.path.exists
exists(fs, path) == path \in DOMAIN fs /\ fs[path] # NoFile

\* The branch taken by overwrite_if_changed: TRUE when it reaches the
\* open(path, 'wb') at the end, FALSE when it returns early.
overwrite_writes(fs, path, source) ==
    LET data == encode(getvalue(source)) IN
    IF exists(fs, path)
    THEN LET new_hash == sha256(data)
             old_hash == sha256(fs[path])
         IN  ~(new_hash = old_hash)
    ELSE TRUE

\* The file system after overwrite_if_changed(path, source).
overwrite_if_changed(fs, path, source) ==
    IF overwrite_writes(fs, path, source)
    THEN (path :> encode(getvalue(source))) @@ fs
    ELSE fs

-----------------------------------------------------------------------------
(* Circular imports                                                        *)

\* str.format of a value that may be None
Str(x) == IF x = None THEN "None" ELSE x

\* The while loop of Module.is_dependent: the answer and the registry
\* afterwards
RECURSIVE dependent_loop(_, _, _, _)
dependent_loop(ms, other, visited, stack) ==
    IF stack = <<>> THEN [result |-> FALSE, mods |-> ms]
    ELSE LET mod_name == Head(stack)
             rest == Tail(stack)
         IN  IF mod_name \in visited THEN dependent_loop(ms, other, visited, rest)
             ELSE IF mod_name = other.name THEN [result |-> TRUE, mods |-> ms]
             ELSE IF mod_name \notin Generator.available_mods
             THEN [result |-> FALSE, mods |-> ms]
             ELSE LET ms2 == get_module_registry(ms, mod_name)
                      mod == ms2[ModIndex(ms2, mod_name)]
                  IN  dependent_loop(ms2, other, visited \cup {mod_name},
                                     mod.imports \o rest)

\* Module.is_dependent: the answer and the registry afterwards
is_dependent(ms, self, other) ==
    IF self.imports = <<>> /\ other.imports = <<>>
    THEN [result |-> FALSE, mods |-> ms]
    ELSE dependent_loop(ms, other, {}, self.imports)

\* Module.is_circular: the answer and the registry afterwards
is_circular(ms, self, other) ==
    LET there == is_dependent(ms, self, other)
    IN  IF ~there.result THEN there
        ELSE is_dependent(there.mods, other, self)

\* Generator.check_circular, one pair: the pair is reported when
\* mod.is_circular(other) gave r
circular_checked(prev, mod, other, r) ==
    [found |-> IF r.result THEN Append(prev.found, <<mod.name, other.name>>)
               ELSE prev.found,
     checked |-> Append(prev.checked, <<mod.name, other.name>>),
     mods |-> r.mods]

\* Generator.check_circular with `mods[i + 1:]` as the inner loop
check_circular_all(ms) ==
    LET pairs == Flatten([i \in DOMAIN ms |->
                    [k \in 1..(Len(ms) - i) |-> <<i, i + k>>]])
        step[k \in 0..Len(pairs)] ==
            IF k = 0 THEN [found |-> <<>>, checked |-> <<>>, mods |-> ms]
            ELSE circular_checked(step[k - 1], ms[pairs[k][1]], ms[pairs[k][2]],
                    is_circular(step[k - 1].mods, ms[pairs[k][1]], ms[pairs[k][2]]))
    IN  step[Len(pairs)]

\* Generator.check_circular: the pairs reported, in order, over the registry
\* at the time of the call
check_circular(ms) ==
    LET pairs == Flatten([i \in DOMAIN ms |->
                    [k \in 1..(IF Len(ms) - 1 - i > 0 THEN Len(ms) - 1 - i ELSE 0) |->
                        <<i, i + k>>]])
        step[k \in 0..Len(pairs)] ==
            IF k = 0 THEN [found |-> <<>>, checked |-> <<>>, mods |-> ms]
            ELSE circular_checked(step[k - 1], ms[pairs[k][1]], ms[pairs[k][2]],
                    is_circular(step[k - 1].mods, ms[pairs[k][1]], ms[pairs[k][2]]))
    IN  step[Len(pairs)]

-----------------------------------------------------------------------------
(* Binding: bind_* store the generated lines on the binder, Module.bind    *)
(* assembles the module's file.                                            *)

\* pybinder.common.SRC_PREFIX: the banner that starts every generated file
SRC_PREFIX == "/* This file is generated by pyOCCT_binder. */\n"

\* patch_src: the source lines after the patches recorded for the file name
patch_src(filename, src) ==
    LET pairs == IF filename \in DOMAIN Generator.patches
                 THEN Generator.patches[filename] ELSE <<>>
        step[k \in 0..Len(pairs)] ==
            IF k = 0 THEN src
            ELSE [i \in DOMAIN src |->
                    IF Contains(step[k - 1][i], pairs[k][1])
                    THEN Replace(step[k - 1][i], pairs[k][1], pairs[k][2])
                    ELSE step[k - 1][i]]
    IN  step[Len(pairs)]

\* bind_enum: the source stored on the binder
bind_enum(bs, n) ==
    LET grouped == <<n>> \o bs[n].grouped_binders
    IN  <<"// ENUM: " \o Upper(python_name(Binder(bs, n))) \o "\n">>
        \o Flatten([i \in DOMAIN grouped |->
                      generate_enum(Binder(bs, grouped[i])) \o <<"\n">>])
        \o <<"\n">>

\* bind_function: the source stored on the binder
bind_function(bs, n) ==
    LET grouped == <<n>> \o bs[n].grouped_binders
    IN  <<"// FUNCTION: " \o Upper(python_name(Binder(bs, n))) \o "\n">>
        \o Flatten([i \in DOMAIN grouped |-> generate_function(Binder(bs, grouped[i]))])

\* bind_class: the source stored on the binder
bind_class(bs, n) ==
    <<"// CLASS: " \o Upper(python_name(Binder(bs, n))) \o "\n">>
        \o generate_class(Binder(bs, n)) \o <<"\n">>

\* The comment bind_typedef puts around the source of generate_typedef2
typedef_comment(binder, other_src) ==
    IF is_excluded(binder)
        \/ (other_src # <<>>
            /\ (StartsWith(other_src[1], "bind_opencascade::handle")
                \/ StartsWith(other_src[1], "bind_std::")))
    THEN LET opened == <<"/*\n">> \o other_src
         IN  IF opened[Len(opened)] # "*/\n" THEN Append(opened, "*/\n") ELSE opened
    ELSE other_src

\* `for txt in extra: binder.opaque.append(txt)` in bind_typedef
opaque_extended(opaque, extra) == opaque \o extra

\* bind_typedef after "# Generate source": the source and opaque definitions
\* stored on the binder and the extra headers returned, given what
\* generate_typedef2 returned
typedef_bound(binder, opaque, gen) ==
    LET qname == qualified_name(binder)
        before == IF qname \in DOMAIN Generator.before_type
                  THEN <<"// Before type\n">>
                       \o [i \in DOMAIN Generator.before_type[qname] |->
                              Generator.before_type[qname][i] \o "\n"]
                       \o <<"\n">>
                  ELSE <<>>
        bind_template == IF gen.bind_template = None THEN <<>> ELSE gen.bind_template
        known == SelectSeqBy(bind_template,
                    {t \in Range(bind_template) : t \in Generator.available_templates})
    IN  [src |-> <<"// TYPEDEF: " \o Upper(python_name(binder)) \o "\n">> \o before
                    \o typedef_comment(binder, gen.src) \o <<"\n">>,
         opaque |-> opaque_extended(opaque, gen.extra),
         headers |-> [i \in DOMAIN known |-> known[i] \o ".hxx"]]

\* bind_typedef
bind_typedef(bs, n) ==
    typedef_bound(Binder(bs, n), bs[n].opaque, generate_typedef2(Binder(bs, n)))

\* `binder.src = src` and `binder.opaque.append(txt)` of bind_typedef, and
\* the value it returns
typedef_stored(b, r) ==
    [binder |-> [b EXCEPT !.src = r.src, !.opaque = r.opaque], headers |-> r.headers]

\* CursorBinder.bind raises: bind_class hands a class that carries a macro
\* to generate_class, which calls macro.generate()
bind_raises(bs, n) ==
    /\ is_class(ast.cursors[n])
    /\ bs[n].macro # NoMacro
    /\ macro_raises(bs[n].macro)

\* CursorBinder.bind for a binder of a module's sorted_binders: the binder
\* afterwards and the headers returned
binder_bind(bs, n) ==
    LET c == ast.cursors[n] IN
    IF is_enum(c) THEN [binder |-> [bs[n] EXCEPT !.src = bind_enum(bs, n)], headers |-> <<>>]
    ELSE IF is_function(c)
    THEN [binder |-> [bs[n] EXCEPT !.src = bind_function(bs, n)], headers |-> <<>>]
    ELSE IF is_class(c)
    THEN [binder |-> [bs[n] EXCEPT !.src = bind_class(bs, n)],
          headers |-> IF bs[n].macro = NoMacro THEN <<>> ELSE macro_headers(bs[n].macro)]
    ELSE IF is_typedef(c)
    THEN typedef_stored(bs[n], bind_typedef(bs, n))
    ELSE [binder |-> bs[n], headers |-> <<>>]

\* The characters of the model's texts in code point order
AsciiOrder ==
    " \"#&()*,./0123456789:;<=>ABCDEFGHIJKLMNOPQRSTUVWXYZ_abcdefghijklmnopqrstuvwxyz{}"

\* ord() of a one-character string, as a rank in AsciiOrder (0 when absent)
Ord(ch) == IndexOf(AsciiOrder, ch)

\* a < b for str
RECURSIVE StrLess(_, _)
StrLess(a, b) ==
    IF b = "" THEN FALSE
    ELSE IF a = "" THEN TRUE
    ELSE LET x == Ord(SubSeq(a, 1, 1))
             y == Ord(SubSeq(b, 1, 1))
         IN  IF x # y THEN x < y
             ELSE StrLess(SubSeq(a, 2, Len(a)), SubSeq(b, 2, Len(b)))

\* sorted() of a set of str
RECURSIVE SortedStrings(_)
SortedStrings(S) ==
    IF S = {} THEN <<>>
    ELSE LET least == CHOOSE x \in S : \A y \in S \ {x} : StrLess(x, y)
         IN  <<least>> \o SortedStrings(S \ {least})

\* CursorBinder.template_parameters
template_parameters(c) ==
    get_children_of_kind(c, {"TEMPLATE_TYPE_PARAMETER", "TEMPLATE_NON_TYPE_PARAMETER"}, FALSE)

\* bind_class_template: the bind function's name and the lines of its header
bind_class_template(bs, n) ==
    LET binder == Binder(bs, n)
        bind_name == "bind_" \o python_name(binder)
        includes == Generator.common_includes \cup Range(bs[n].includes)
                    \cup (IF bind_name \in DOMAIN Generator.plus_headers
                          THEN Range(Generator.plus_headers[bind_name]) ELSE {})
        incs == SortedStrings(includes)
        params == template_parameters(binder)
        param_text(t) ==
            (IF is_template_type_param(t) THEN "typename " \o t.display_name
             ELSE t.type.spelling \o " " \o t.display_name)
            \o (IF default_value(t) # "" THEN "=" \o default_value(t) ELSE "")
    IN  [bind_name |-> bind_name,
         src |-> patch_src(bind_name,
                    <<"#pragma once\n">>
                    \o [i \in DOMAIN incs |-> "#include <" \o incs[i] \o ">\n"]
                    \o <<"\n",
                         "template <"
                            \o JoinSep(", ", [i \in DOMAIN params |-> param_text(params[i])])
                            \o ">\n",
                         "void " \o bind_name
                            \o "(py::module &mod, std::string const &name, py::module_local const &local){\n\n">>
                    \o generate_class_template(binder)
                    \o <<"\n", "}\n\n">>)]

\* Module.bind_templates, one template: the name is stored on the binder and
\* registered, and bind_<name>.hxx is written
template_bound(prev, n, r, path) ==
    [binders |-> [prev.binders EXCEPT ![n].bind_name = r.bind_name],
     available_templates |-> prev.available_templates \cup {r.bind_name},
     files |-> overwrite_if_changed(prev.files, path \o "/" \o r.bind_name \o ".hxx",
                                    <<SRC_PREFIX>> \o r.src)]

\* bind_class_template for the template n, on the binders a previous turn left
template_turn(prev, n, path) ==
    template_bound(prev, n, bind_class_template(prev.binders, n), path)

\* The loop of Module.bind_templates after its first k turns; start holds the
\* binders, the available templates and the output directory before it
RECURSIVE module_bind_templates_loop(_, _, _, _)
module_bind_templates_loop(templates, start, path, k) ==
    IF k = 0 THEN start
    ELSE template_turn(module_bind_templates_loop(templates, start, path, k - 1),
                       templates[k], path)

\* Module.bind_templates: the binders, the available templates and the output
\* directory afterwards
module_bind_templates(mod, start, path) ==
    module_bind_templates_loop(mod.templates, start, path, Len(mod.templates))

\* '/'.join([path, name])
PathJoin(path, name) == path \o "/" \o name

\* Module.bind, "# Generate binding source and headers": the binders after
\* each has been bound, and the headers they returned
module_bind_step(prev, n, r) ==
    [binders |-> [prev.binders EXCEPT ![n] = r.binder],
     extra_headers |-> prev.extra_headers \o r.headers,
     raised |-> FALSE]

\* binder.bind(path) for the binder n, on the binders a previous turn left;
\* nothing catches what binder.bind raises, so the loop ends there
module_bind_turn(prev, n) ==
    IF prev.raised THEN prev
    ELSE IF bind_raises(prev.binders, n) THEN [prev EXCEPT !.raised = TRUE]
    ELSE module_bind_step(prev, n, binder_bind(prev.binders, n))

RECURSIVE module_bind_binders_loop(_, _, _)
module_bind_binders_loop(sorted_binders, bs, k) ==
    IF k = 0 THEN [binders |-> bs, extra_headers |-> <<>>, raised |-> FALSE]
    ELSE module_bind_turn(module_bind_binders_loop(sorted_binders, bs, k - 1),
                          sorted_binders[k])

module_bind_binders(mod, bs) ==
    module_bind_binders_loop(mod.sorted_binders, bs, Len(mod.sorted_binders))

\* Module.bind, "# Import other modules" and "# Import guards"
module_import_src(mod) ==
    LET guarded == IF mod.name \in DOMAIN Generator.import_guards
                   THEN Generator.import_guards[mod.name] ELSE {}
        imported == SelectSeqBy(mod.imports,
                       {m \in Range(mod.imports) : m \notin guarded /\ m # mod.name})
        guards == SetToList(guarded)
    IN  [i \in DOMAIN imported |->
            "py::module::import(\"" \o Str(get_namespace(imported[i])) \o "."
                \o imported[i] \o "\");\n"]
        \o <<"\n">>
        \o Flatten([i \in DOMAIN guards |->
              <<"struct Import" \o guards[i] \o "{\n",
                "\tImport" \o guards[i] \o "() { py::module::import(\""
                    \o Str(get_namespace(guards[i])) \o "." \o guards[i] \o "\"); }\n",
                "};\n\n">>])

\* Module.bind, "# Main bind loop" and "# Patch the file": the patched source
\* of the binders of one file
module_src(mod, bs, part) ==
    patch_src(mod.name, Flatten([i \in DOMAIN part |-> bs[part[i]].src]))

\* Module.bind: what is written to <module>.cxx
module_fout(mod, bs, is_split, inc_src, first) ==
    LET opaque == Flatten([i \in DOMAIN mod.sorted_binders |->
                              bs[mod.sorted_binders[i]].opaque])
    IN  <<SRC_PREFIX>> \o inc_src \o <<"\n">>
        \o opaque \o (IF opaque # <<>> THEN <<"\n">> ELSE <<>>)
        \o (IF mod.name \in DOMAIN Generator.before_module
            THEN [i \in DOMAIN Generator.before_module[mod.name] |->
                     Generator.before_module[mod.name][i] \o "\n"] \o <<"\n">>
            ELSE <<>>)
        \o (IF is_split
            THEN <<"// Functions for split modules\n",
                   "void bind_" \o mod.name \o "_2(py::module&);\n\n">>
            ELSE <<>>)
        \o <<"PYBIND11_MODULE(" \o mod.name \o ", mod) {\n\n">>
        \o module_import_src(mod)
        \o module_src(mod, bs, first) \o <<"\n">>
        \o (IF is_split THEN <<"bind_" \o mod.name \o "_2(mod);\n\n">> ELSE <<>>)
        \o <<"}\n">>

\* Module.bind, "# Create the split file": what is written to <module>_2.cxx
module_fout2(mod, bs, inc_src, split_binders) ==
    LET before_mod_src == IF mod.name \in DOMAIN Generator.before_module
                          THEN Generator.before_module[mod.name] ELSE <<>>
    IN  <<SRC_PREFIX>> \o inc_src \o <<"\n">>
        \o (IF before_mod_src # <<>> THEN before_mod_src \o <<"\n\n">> ELSE <<>>)
        \o <<"void bind_" \o mod.name \o "_2(py::module &mod)\n", "{\n\n">>
        \o module_src(mod, bs, split_binders) \o <<"\n">>
        \o <<"}\n">>

\* Module.bind, the two overwrite_if_changed calls: the output directory
\* afterwards and the number of files written
module_write(fs, is_split, fname, fout, fname2, fout2) ==
    LET fs1 == overwrite_if_changed(fs, fname, fout)
    IN  [files |-> IF is_split THEN overwrite_if_changed(fs1, fname2, fout2) ELSE fs1,
         writes |-> (IF overwrite_writes(fs, fname, fout) THEN 1 ELSE 0)
                    + (IF is_split /\ overwrite_writes(fs1, fname2, fout2) THEN 1 ELSE 0)]

\* Module.bind once the binders are bound; when a binder raised, Module.bind
\* is left before anything is written
module_bound(mod, bound, fs, path, is_split, indx) ==
    LET used_includes == ExtendNew(<<>>, mod.includes \o bound.extra_headers)
        inc_src == [i \in DOMAIN used_includes |-> "#include <" \o used_includes[i] \o ">\n"]
    IN  IF bound.raised
        THEN [binders |-> bound.binders, io |-> [files |-> fs, writes |-> 0], raised |-> TRUE]
        ELSE
        [binders |-> bound.binders,
         raised |-> FALSE,
         io |-> module_write(fs, is_split,
                    PathJoin(path, mod.name \o ".cxx"),
                    module_fout(mod, bound.binders, is_split, inc_src,
                        IF is_split THEN SubSeq(mod.sorted_binders, 1, indx)
                        ELSE mod.sorted_binders),
                    PathJoin(path, mod.name \o "_2.cxx"),
                    module_fout2(mod, bound.binders, inc_src,
                        IF is_split
                        THEN SubSeq(mod.sorted_binders, indx + 1, Len(mod.sorted_binders))
                        ELSE <<>>))]

\* Module.bind with the binders divided after the larger half
module_bind_uneven(mod, bs, fs, path) ==
    module_bound(mod, module_bind_binders(mod, bs), fs, path,
                 mod.name \in Generator.split, (Len(mod.sorted_binders) + 1) \div 2)

\* Module.bind: the binders and the output directory afterwards, and the
\* number of files written
module_bind(mod, bs, fs, path) ==
    module_bound(mod, module_bind_binders(mod, bs), fs, path,
                 mod.name \in Generator.split, Len(mod.sorted_binders) \div 2)

-----------------------------------------------------------------------------
(* The Generator's passes over the registry, as main() runs them.          *)

\* Generator.traverse: the registry and the binders after every child of the
\* translation unit has been handed to traverse_binder
generator_traverse(ms, bs, children) ==
    LET step[k \in 0..Len(children)] ==
            IF k = 0 THEN [mods |-> ms, binders |-> bs, canonical_types |-> <<>>]
            ELSE traverse_binder(step[k - 1], children[k])
    IN  step[Len(children)]

\* The registry and the binders after the k-th module has been through a
\* pass that gave r
generator_module_done(prev, k, r) ==
    [mods |-> [prev.mods EXCEPT ![k] = r.mod], binders |-> r.binders]

\* Generator.sort_binders
generator_sort_binders(ms, bs) ==
    LET step[k \in 0..Len(ms)] ==
            IF k = 0 THEN [mods |-> ms, binders |-> bs]
            ELSE generator_module_done(step[k - 1], k, sort_binders(ms[k], step[k - 1].binders))
    IN  step[Len(ms)]

\* Generator.build_includes
generator_build_includes(ms, bs) ==
    LET step[k \in 0..Len(ms)] ==
            IF k = 0 THEN [mods |-> ms, binders |-> bs]
            ELSE generator_module_done(step[k - 1], k,
                    module_build_includes(ms[k], step[k - 1].binders))
    IN  step[Len(ms)]

\* Generator.build_imports
generator_build_imports(ms) ==
    [k \in DOMAIN ms |-> [ms[k] EXCEPT !.imports = module_build_imports(ms[k])]]

\* Generator.bind_templates
RECURSIVE generator_bind_templates_loop(_, _, _, _)
generator_bind_templates_loop(ms, start, path, k) ==
    IF k = 0 THEN start
    ELSE module_bind_templates(ms[k], generator_bind_templates_loop(ms, start, path, k - 1),
                               path)

generator_bind_templates(ms, bs, available_templates, fs, path) ==
    generator_bind_templates_loop(ms,
        [binders |-> bs, available_templates |-> available_templates, files |-> fs],
        path, Len(ms))

\* One turn of the loop of Generator.bind: the module is bound unless it is
\* excluded; nothing catches what mod.bind raises, so the loop ends there
generator_bind_module(prev, r) ==
    [binders |-> r.binders, files |-> r.io.files, writes |-> prev.writes + r.io.writes,
     raised |-> r.raised]

generator_bind_step(mod, prev, path) ==
    IF prev.raised \/ mod.name \in Generator.excluded_mods THEN prev
    ELSE generator_bind_module(prev, module_bind(mod, prev.binders, prev.files, path))

\* The loop of Generator.bind after its first k turns
RECURSIVE generator_bind_loop(_, _, _, _, _)
generator_bind_loop(ms, bs, fs, path, k) ==
    IF k = 0 THEN [binders |-> bs, files |-> fs, writes |-> 0, raised |-> FALSE]
    ELSE generator_bind_step(ms[k], generator_bind_loop(ms, bs, fs, path, k - 1), path)

\* Generator.bind
generator_bind(ms, bs, fs, path) == generator_bind_loop(ms, bs, fs, path, Len(ms))

-----------------------------------------------------------------------------
(* Specification SpecFile: a caller fills a StringIO and hands it to        *)
(* overwrite_if_changed, over and over, on a directory of FilePaths.        *)

MaxChunks == 2
FilePaths == {"Foo.cxx", "Foo_2.cxx"}
Chunks == {"a", "b"}

FileInit ==
    /\ files = [p \in FilePaths |-> NoFile]
    /\ lastCall = NoCall
    /\ fsrc = <<>>
    /\ Generator = GeneratorAttrs
    /\ ast = [cursors |-> <<>>, macros |-> <<>>]
    /\ tu = <<>>
    /\ mods = <<>>
    /\ binders = <<>>
    /\ pc = "idle"
    /\ run = NoRun
    /\ gin = NoIn
    /\ gout = NoOut
    /\ circ = NoCirc
    /\ conf = NoConf

\* fout.write(chunk)
FileWrite ==
    /\ Len(fsrc) < MaxChunks
    /\ \E c \in Chunks : fsrc' = Append(fsrc, c)
    /\ UNCHANGED <<files, lastCall, inVars, pipeVars, genVars, circ, conf>>

\* overwrite_if_changed(path, fout); the caller then starts a new buffer
FileOverwrite ==
    \E path \in FilePaths :
        /\ files' = overwrite_if_changed(files, path, fsrc)
        /\ lastCall' = [path |-> path,
                        data |-> encode(getvalue(fsrc)),
                        before |-> files[path],
                        wrote |-> overwrite_writes(files, path, fsrc)]
        /\ fsrc' = <<>>
        /\ UNCHANGED <<inVars, pipeVars, genVars, circ, conf>>

FileNext == FileWrite \/ FileOverwrite

SpecFile == FileInit /\ [][FileNext]_vars

\* C2: overwrite_if_changed writes the file exactly when it did not exist or
\* its content differed from the buffer; an equal file is left untouched; and
\* afterwards the file always holds the buffer.
C2_OverwriteIffChanged ==
    lastCall # NoCall =>
        /\ lastCall.wrote <=>
              (lastCall.before = NoFile \/ lastCall.before # lastCall.data)
        /\ (~lastCall.wrote => files[lastCall.path] = lastCall.before)
        /\ files[lastCall.path] = lastCall.data

\* A call on an existing file with equal content (skipped) after a call that
\* replaced differing content.
C2_Witness ==
    /\ lastCall # NoCall
    /\ ~lastCall.wrote
    /\ lastCall.before = lastCall.data
    /\ lastCall.data = encode("ab")
    /\ files["Foo_2.cxx"] = encode("ba")

-----------------------------------------------------------------------------
(* Specification SpecGen: one declaration is handed to the generate_*       *)
(* function of its kind.  The declaration is drawn from the callables with  *)
(* up to MaxParams parameters and from the classes of a small hierarchy.    *)

MaxParams == 2

\* The parameter types a callable is drawn with: an int by value, a
\* reference to a double, a reference to a const double
ParamKinds == {"val", "out", "cin"}
ParamNames == <<"x", "y", "z", "w">>

GenType(spelling, kind, pointee) ==
    [NoType EXCEPT !.spelling = spelling, !.kind = kind, !.pointee = pointee,
                   !.canonical = spelling, !.canonical_kind = kind]

GenRecordType(name) ==
    [NoType EXCEPT !.spelling = name, !.kind = "RECORD", !.canonical = name,
                   !.canonical_kind = "RECORD", !.decl = name, !.canonical_decl = name]

ParamType(k) ==
    CASE k = "val" -> GenType("int", "INT", "")
      [] k = "out" -> GenType("double &", "LVALUEREFERENCE", "double")
      [] k = "cin" -> GenType("const double &", "LVALUEREFERENCE", "const double")

\* The cursor of the i-th parameter; its tokens carry the default value
GenParam(kinds, ndefaults, i) ==
    [NoCursor EXCEPT
        !.kind = "PARM_DECL", !.spelling = ParamNames[i],
        !.display_name = ParamNames[i], !.type = ParamType(kinds[i]),
        !.tokens = Replace(ParamType(kinds[i]).spelling, " ", "") \o ParamNames[i]
                     \o (IF i > Len(kinds) - ndefaults THEN "=0" ELSE "")]

GenParams(d) == [i \in DOMAIN d.kinds |-> GenParam(d.kinds, d.ndefaults, i)]

GenSignature(d) == "(" \o JoinSep(", ", [i \in DOMAIN d.kinds |-> ParamType(d.kinds[i]).spelling]) \o ")"

GenRType(d) == IF d.rvoid THEN GenType("void", "VOID", "") ELSE GenType("int", "INT", "")

\* The cursor of the callable a description stands for
GenCallable(d) ==
    CASE d.kind = "function" ->
            [NoCursor EXCEPT
                !.kind = "FUNCTION_DECL", !.spelling = "Foo_f",
                !.display_name = "Foo_f" \o GenSignature(d),
                !.filename = "Foo_K.hxx", !.rtype = GenRType(d),
                !.children = GenParams(d)]
      [] d.kind = "method" ->
            [NoCursor EXCEPT
                !.kind = "CXX_METHOD", !.spelling = "Get",
                !.display_name = "Get" \o GenSignature(d), !.scope = "Foo_K",
                !.filename = "Foo_K.hxx", !.rtype = GenRType(d),
                !.is_static_method = d.static, !.parent_name = "cls_Foo_K",
                !.children = GenParams(d)]
      [] d.kind = "ctor" ->
            [NoCursor EXCEPT
                !.kind = "CONSTRUCTOR", !.spelling = "Foo_K",
                !.display_name = "Foo_K" \o GenSignature(d), !.scope = "Foo_K",
                !.filename = "Foo_K.hxx", !.rtype = GenType("void", "VOID", ""),
                !.parent_name = "cls_Foo_K", !.children = GenParams(d)]

GenBase(name, access) ==
    [NoCursor EXCEPT !.kind = "CXX_BASE_SPECIFIER", !.spelling = name,
                     !.display_name = name, !.access = access,
                     !.type = GenRecordType(name)]

GenMember(kind, cls, spelling, access) ==
    [NoCursor EXCEPT !.kind = kind, !.spelling = spelling,
                     !.display_name = spelling \o "()", !.scope = cls,
                     !.access = access, !.rtype = GenType("void", "VOID", "")]

GenClass(name, children) ==
    [NoCursor EXCEPT !.kind = "CLASS_DECL", !.spelling = name, !.display_name = name,
                     !.filename = name \o ".hxx", !.type = GenRecordType(name),
                     !.children = children]

\* The cursor of the class a description stands for
GenClassOf(d) ==
    LET c == GenClass("Foo_C",
                (IF d.transient THEN <<GenBase("Standard_Transient", "public")>> ELSE <<>>)
                \o (IF d.base = "none" THEN <<>> ELSE <<GenBase(d.base, d.base_access)>>)
                \o (IF d.ctor THEN <<GenMember("CONSTRUCTOR", "Foo_C", "Foo_C", "public")>>
                    ELSE <<>>)
                \o (IF d.dtor = "none" THEN <<>>
                    ELSE <<GenMember("DESTRUCTOR", "Foo_C", "~Foo_C", d.dtor)>>)
                \o <<GenMember("CXX_METHOD", "Foo_C", "Size", "public")>>)
    IN  [c EXCEPT !.is_abstract = d.abstract]

\* The hierarchy the class under test derives from: Foo_B is a plain class,
\* Foo_N has a private destructor, Foo_H derives from Standard_Transient,
\* Foo_P declares a constructor and Foo_Q derives from Foo_P
GenHierarchy ==
    [n \in {"Foo_K", "Foo_B", "Foo_N", "Foo_H", "Foo_P", "Foo_Q", "Standard_Transient"} |->
        CASE n = "Foo_K" -> GenClass(n, <<GenMember("CXX_METHOD", n, "Size", "public")>>)
          [] n = "Foo_P" -> GenClass(n, <<GenMember("CONSTRUCTOR", n, n, "public")>>)
          [] n = "Foo_Q" -> GenClass(n, <<GenBase("Foo_P", "public")>>)
          [] n = "Foo_B" -> GenClass(n, <<GenMember("CXX_METHOD", n, "Size", "public")>>)
          [] n = "Foo_N" -> GenClass(n, <<GenMember("DESTRUCTOR", n, "~Foo_N", "private")>>)
          [] n = "Foo_H" -> GenClass(n, <<GenBase("Standard_Transient", "public")>>)
          [] n = "Standard_Transient" ->
                GenClass(n, <<GenMember("CXX_METHOD", n, "Delete", "public")>>)]

CallableInputs ==
    {d \in [kind : {"function", "method", "ctor"},
            kinds : UNION {[1..n -> ParamKinds] : n \in 0..MaxParams},
            ndefaults : 0..MaxParams, rvoid : BOOLEAN, static : BOOLEAN] :
        /\ d.ndefaults <= Len(d.kinds)
        /\ d.kind # "method" => ~d.static
        /\ d.kind = "ctor" => d.rvoid}

ClassInputs ==
    {d \in [kind : {"class"}, base : {"none", "Foo_B", "Foo_N", "Foo_H", "Foo_P", "Foo_Q"},
            base_access : {"public", "private"}, ctor : BOOLEAN,
            dtor : {"none", "public", "private"}, abstract : BOOLEAN,
            nodelete : BOOLEAN, transient : BOOLEAN] :
        d.base = "none" => d.base_access = "public"}

GenInit ==
    /\ gin \in CallableInputs \cup ClassInputs
    /\ gout = NoOut
    /\ Generator = [GeneratorNew("OCCT", [OCCT |-> {"Foo"}],
                                 {"Foo_K.hxx", "Foo_C.hxx", "Foo_B.hxx", "Foo_N.hxx",
                                  "Foo_H.hxx", "Foo_P.hxx", "Foo_Q.hxx",
                                  "Standard_Transient.hxx"})
                        EXCEPT !.immutable = {"int", "double"},
                               !.nodelete = IF gin.kind = "class" /\ gin.nodelete
                                            THEN {"Foo_C"} ELSE {}]
    /\ ast = [cursors |-> IF gin.kind = "class"
                          THEN ("Foo_C" :> GenClassOf(gin)) @@ GenHierarchy
                          ELSE GenHierarchy,
              macros |-> <<>>]
    /\ tu = <<>>
    /\ files = <<>>
    /\ lastCall = NoCall
    /\ fsrc = <<>>
    /\ mods = <<>>
    /\ binders = <<>>
    /\ pc = "idle"
    /\ run = NoRun
    /\ circ = NoCirc
    /\ conf = NoConf

GenFrame == UNCHANGED <<fsVars, inVars, pipeVars, gin, circ, conf>>

GenerateFunction ==
    /\ gin.kind = "function" /\ ~gout.done
    /\ gout' = [done |-> TRUE, src |-> generate_function(GenCallable(gin))]
    /\ GenFrame

GenerateMethod ==
    /\ gin.kind = "method" /\ ~gout.done
    /\ gout' = [done |-> TRUE, src |-> generate_method(GenCallable(gin))]
    /\ GenFrame

GenerateCtor ==
    /\ gin.kind = "ctor" /\ ~gout.done
    /\ gout' = [done |-> TRUE, src |-> generate_ctor(GenCallable(gin))]
    /\ GenFrame

GenerateClass ==
    /\ gin.kind = "class" /\ ~gout.done
    /\ gout' = [done |-> TRUE, src |-> generate_class(ast.cursors["Foo_C"])]
    /\ GenFrame

GenNext == GenerateFunction \/ GenerateMethod \/ GenerateCtor \/ GenerateClass

SpecGen == GenInit /\ [][GenNext]_vars

-----------------------------------------------------------------------------
(* Properties of the generated text, read off the text and the description *)
(* of the declaration it was generated for.                                *)

\* how many times p occurs in s
RECURSIVE CountOcc(_, _)
CountOcc(s, p) ==
    IF IndexOf(s, p) = 0 THEN 0
    ELSE 1 + CountOcc(SubSeq(s, IndexOf(s, p) + Len(p), Len(s)), p)

\* N, D and the in/out parameters of the callable drawn
GenN == Len(gin.kinds)
GenD == gin.ndefaults
GenOuts == SelectSeqBy([i \in DOMAIN gin.kinds |-> i],
                       {i \in DOMAIN gin.kinds : gin.kinds[i] = "out"})

\* The number of arguments a binding line accepts: a lambda binding names
\* its arguments a0, a1, ...; any other binding names each with a py::arg
BindingArity(line) ==
    IF Contains(line, "[](")
    THEN Cardinality({k \in 0..(GenN - 1) : Contains(line, " a" \o ToString(k))})
    ELSE CountOcc(line, "py::arg(")

\* The bindings are D+1 in number, one per argument count N-D .. N
OnePerArity ==
    /\ Len(gout.src) = GenD + 1
    /\ \A k \in 1..(GenD + 1) : BindingArity(gout.src[k]) = GenN - GenD + k - 1

ExpectedReturn ==
    LET names == JoinSep(", ", [k \in DOMAIN GenOuts |-> ParamNames[GenOuts[k]]])
        types == JoinSep(", ", [k \in DOMAIN GenOuts |-> "double &"])
    IN  IF gin.rvoid
        THEN IF Len(GenOuts) = 1 THEN "return " \o names \o "; }"
             ELSE "return std::tuple<" \o types \o ">(" \o names \o "); }"
        ELSE "return std::tuple<int, " \o types \o ">(rv, " \o names \o "); }"

\* C9: a method with at least one non-const pointer-like parameter of an
\* immutable type is given exactly one binding, whatever the number of
\* defaulted parameters; the adapter returns the parameter itself (void, one
\* such parameter), a tuple of them (void, several), or a tuple of the call
\* result followed by them (non-void).
C9_InOutAdapter ==
    (gout.done /\ gin.kind = "method" /\ GenOuts # <<>>) =>
        /\ Len(gout.src) = 1
        /\ Contains(gout.src[1], "[](")
        /\ Contains(gout.src[1], ExpectedReturn)
        /\ CountOcc(gout.src[1], "return ") = 1

\* A void method with one in/out parameter and a defaulted parameter, after
\* generation
C9_Witness ==
    /\ gout.done /\ gin.kind = "method" /\ gin.rvoid
    /\ gin.kinds = <<"out", "val">> /\ GenD = 1
    /\ Contains(gout.src[1], "return x; }")

\* The holder model a class of the hierarchy resolves to: "handle" for the
\* reference-counted handle, "unique" for the exclusive pointer, "nodelete"
\* for the exclusive pointer with disabled destruction
HolderModel(name) ==
    CASE name \in {"Foo_B", "Foo_P", "Foo_Q"} -> "unique"
      [] name = "Foo_N" -> "nodelete"
      [] name = "Foo_H" -> "handle"
      [] name = "Foo_C" ->
            IF gin.transient \/ gin.base = "Foo_H" THEN "handle"
            ELSE IF gin.dtor = "private" \/ gin.nodelete THEN "nodelete"
            ELSE "unique"

\* The py::class_ line of the class generated
RegistrationLine ==
    LET at == {i \in DOMAIN gout.src : Contains(gout.src[i], "py::class_<Foo_C")}
    IN  IF at = {} THEN "" ELSE gout.src[CHOOSE i \in at : TRUE]

\* C4: a public base that resolves to another holder model than the class
\* does not appear in the base list of the class's registration.
C4_HolderConsistency ==
    (gout.done /\ gin.kind = "class" /\ gin.base # "none" /\ gin.base_access = "public"
        /\ HolderModel("Foo_C") # HolderModel(gin.base))
    => ~Contains(RegistrationLine, ", " \o gin.base \o "> cls_Foo_C(")

\* A class with a public base of another holder model whose registration
\* leaves the base out
C4_Witness ==
    /\ gout.done /\ gin.kind = "class" /\ gin.base = "Foo_B" /\ gin.base_access = "public"
    /\ HolderModel("Foo_C") = "handle"
    /\ RegistrationLine # ""
    /\ ~Contains(RegistrationLine, ", " \o gin.base \o "> cls_Foo_C(")

\* C10: the registration of a class whose only destructor is non-public
\* carries the py::nodelete holder, and no py::init<>() is emitted for it.
C10_PrivateDestructor ==
    (gout.done /\ gin.kind = "class" /\ gin.dtor = "private") =>
        /\ Contains(RegistrationLine, "py::nodelete")
        /\ \A i \in DOMAIN gout.src : gout.src[i] # "cls_Foo_C.def(py::init<>());\n"

\* The classes a class names as its bases
DirectBases(name) ==
    {bases(ast.cursors[name])[i].type.decl : i \in DOMAIN bases(ast.cursors[name])}

\* The transitive base set of a class
RECURSIVE TransitiveBases(_)
TransitiveBases(name) ==
    DirectBases(name) \cup UNION {TransitiveBases(b) : b \in DirectBases(name)}

\* The definition of the class declares a constructor
DeclaresCtor(name) ==
    \E i \in DOMAIN ast.cursors[name].children :
        ast.cursors[name].children[i].kind = "CONSTRUCTOR"

\* C24: needs_default_ctor is true of a class exactly when the class is not
\* abstract, declares no constructor, and no class of its transitive base
\* set declares one.
C24_DefaultCtorNecessity ==
    (gout.done /\ gin.kind = "class") =>
        (needs_default_ctor(ast.cursors["Foo_C"])
            <=> /\ ~ast.cursors["Foo_C"].is_abstract
                /\ ~DeclaresCtor("Foo_C")
                /\ \A b \in TransitiveBases("Foo_C") : ~DeclaresCtor(b))

\* generate_class has run on a class that declares no constructor and
\* whose base derives from a class that declares one
C24_Witness ==
    /\ gout.done /\ gin.kind = "class" /\ gin.base = "Foo_Q"
    /\ ~gin.ctor /\ ~gin.abstract
    /\ "Foo_P" \in TransitiveBases("Foo_C")

\* Sanity: needs_default_ctor is true exactly when the class is not abstract
\* and declares no constructor itself
PC_DefaultCtorOwn ==
    (gout.done /\ gin.kind = "class") =>
        (needs_default_ctor(ast.cursors["Foo_C"])
            <=> (~ast.cursors["Foo_C"].is_abstract /\ ~DeclaresCtor("Foo_C")))

-----------------------------------------------------------------------------
(* Specification SpecCirc: the registry holds the modules of the package   *)
(* with the import lists build_imports can leave (no module imports        *)
(* itself, none is named twice; "Ext" is a module of another package), and *)
(* is_circular is asked about pairs of them.                               *)

MaxImports == 2

CircMods == <<"Foo", "Bar", "Baz">>
CircNames == {"Foo", "Bar", "Baz", "Ext"}

\* the import lists a module of that name can have
ImportLists(name) ==
    {s \in UNION {[1..n -> CircNames \ {name}] : n \in 0..MaxImports} :
        \A i, j \in DOMAIN s : i # j => s[i] # s[j]}

CircInit ==
    /\ Generator = GeneratorNew("OCCT", [OCCT |-> {"Foo", "Bar", "Baz"}, Other |-> {"Ext"}], {})
    /\ \E f \in ImportLists("Foo"), b \in ImportLists("Bar"), z \in ImportLists("Baz") :
          mods = <<[NewModule("Foo") EXCEPT !.imports = f],
                   [NewModule("Bar") EXCEPT !.imports = b],
                   [NewModule("Baz") EXCEPT !.imports = z]>>
    /\ circ = NoCirc
    /\ conf = NoConf
    /\ ast = [cursors |-> <<>>, macros |-> <<>>]
    /\ tu = <<>>
    /\ files = <<>>
    /\ lastCall = NoCall
    /\ fsrc = <<>>
    /\ binders = <<>>
    /\ pc = "idle"
    /\ run = NoRun
    /\ gin = NoIn
    /\ gout = NoOut

\* mod1.is_circular(mod2)
IsCircular ==
    \E i, j \in DOMAIN mods :
        /\ i # j
        /\ LET r == is_circular(mods, mods[i], mods[j])
           IN  /\ circ' = [called |-> TRUE, self |-> mods[i].name,
                           other |-> mods[j].name, result |-> r.result]
               /\ mods' = r.mods
        /\ UNCHANGED <<fsVars, inVars, binders, pc, run, genVars, conf>>

CircNext == IsCircular

SpecCirc == CircInit /\ [][CircNext]_vars

\* the import list of the module of that name; none for a name that has no
\* module in the registry
ImportsOf(name) ==
    IF ModIndex(mods, name) = 0 THEN <<>> ELSE mods[ModIndex(mods, name)].imports

\* the names at most n imports away from the module of that name
RECURSIVE ImportClosure(_, _)
ImportClosure(name, n) ==
    IF n = 0 THEN {}
    ELSE Range(ImportsOf(name))
            \cup UNION {ImportClosure(m, n - 1) : m \in Range(ImportsOf(name))}

\* other is in the transitive import closure of name
Imports(name, other) == other \in ImportClosure(name, Cardinality(CircNames))

\* C7: A.is_circular(B) is true exactly when B is in the transitive import
\* closure of A and A is in that of B, whatever the import graph (imports
\* of modules outside the available set included); it is false whenever A or
\* B has no imports.
C7_CircularIffMutualClosure ==
    circ.called =>
        /\ circ.result <=> (Imports(circ.self, circ.other) /\ Imports(circ.other, circ.self))
        /\ (ImportsOf(circ.self) = <<>> \/ ImportsOf(circ.other) = <<>>) => ~circ.result

\* Two modules that import each other, the first one after a module of
\* another package, found circular
C7_Witness ==
    /\ circ.called /\ circ.result
    /\ Imports(circ.self, circ.other) /\ Imports(circ.other, circ.self)
    /\ circ.other \notin Range(ImportsOf(circ.self))

-----------------------------------------------------------------------------
(* Specification Spec: main() of generate/run.py on a translation unit     *)
(* drawn from the declarations of a small library, under a configuration   *)
(* drawn from the rules that concern them; Generator.bind may be run again  *)
(* on the same registry and output directory.                              *)

MaxSize == 3    \* declarations of the translation unit plus rules of the configuration
MaxRuns == 2    \* runs of Generator.bind

\* the output directory handed to bind_templates and bind
OutDir == "src"

\* The declarations in the order the headers give them
LibDecls ==
    <<"Bar_K", "Foo_K", "Foo_M", "Foo_Empty", "Foo_T1", "Foo_T2", "NCollection_List",
      "Foo_L1", "Foo_L2", "Foo_Vec", "Foo_E1", "Foo_E2", "Foo_E3", "Foo_f">>

LibTypedef(name, canonical, refs) ==
    [NoCursor EXCEPT
        !.kind = "TYPEDEF_DECL", !.spelling = name, !.display_name = name,
        !.filename = name \o ".hxx", !.underlying_decl = canonical, !.refs = refs,
        !.type = [NoType EXCEPT !.spelling = name, !.kind = "TYPEDEF",
                                !.canonical = canonical, !.canonical_kind = "RECORD",
                                !.decl = name, !.canonical_decl = canonical]]

LibEnum(name, file, constants) ==
    [NoCursor EXCEPT
        !.kind = "ENUM_DECL", !.spelling = name, !.display_name = name,
        !.filename = file, !.type = GenType(name, "ENUM", ""),
        !.children = [i \in DOMAIN constants |->
            [NoCursor EXCEPT !.kind = "ENUM_CONSTANT_DECL", !.spelling = constants[i],
                             !.display_name = constants[i], !.scope = name,
                             !.type = GenType(name, "ENUM", "")]]]

LibTemplate(name, file) ==
    [NoCursor EXCEPT
        !.kind = "CLASS_TEMPLATE", !.spelling = name, !.display_name = name \o "<T>",
        !.filename = file,
        !.children = <<[NoCursor EXCEPT !.kind = "TEMPLATE_TYPE_PARAMETER",
                                        !.spelling = "T", !.display_name = "T",
                                        !.tokens = "typenameT"],
                       GenMember("CXX_METHOD", name, "Size", "public")>>]

LibSpecialization(name, template, file) ==
    [GenClass(name, <<GenMember("CXX_METHOD", name, "Size", "public")>>)
        EXCEPT !.spelling = template, !.filename = file, !.specialization = template]

\* What the front end answers for the library: Bar_K, Foo_K are plain
\* classes; Foo_M is named by a DEFINE_HARRAY1 instantiation; Foo_Empty has
\* no members; Foo_T1, Foo_T2 name Bar_K; Foo_L1, Foo_L2 name
\* NCollection_List<int>; Foo_Vec names std::vector<int>; Foo_E1 and Foo_E2
\* share the header Foo_E.hxx
LibCursors ==
    [n \in Range(LibDecls) \cup {"NCollection_List<int>", "std::vector", "std::vector<int>"} |->
        CASE n \in {"Bar_K", "Foo_K", "Foo_M"} ->
                GenClass(n, <<GenMember("CXX_METHOD", n, "Size", "public")>>)
          [] n = "Foo_Empty" -> GenClass(n, <<>>)
          [] n \in {"Foo_T1", "Foo_T2"} -> LibTypedef(n, "Bar_K", <<"Bar_K.hxx">>)
          [] n \in {"Foo_L1", "Foo_L2"} ->
                LibTypedef(n, "NCollection_List<int>", <<"NCollection_List.hxx">>)
          [] n = "Foo_Vec" -> LibTypedef(n, "std::vector<int>", <<"vector">>)
          [] n = "NCollection_List" -> LibTemplate(n, "NCollection_List.hxx")
          [] n = "NCollection_List<int>" ->
                LibSpecialization(n, "NCollection_List", "NCollection_List.hxx")
          [] n = "std::vector" -> LibTemplate(n, "vector")
          [] n = "std::vector<int>" -> LibSpecialization(n, "std::vector", "vector")
          [] n = "Foo_E1" -> LibEnum(n, "Foo_E.hxx", <<"Foo_E1_A", "Foo_E1_B">>)
          [] n = "Foo_E2" -> LibEnum(n, "Foo_E.hxx", <<"Foo_E2_A">>)
          [] n = "Foo_E3" -> LibEnum(n, "Foo_E3.hxx", <<"Foo_E3_A">>)
          [] n = "Foo_f" ->
                [GenCallable([kind |-> "function", kinds |-> <<"val">>, ndefaults |-> 0,
                              rvoid |-> TRUE, static |-> FALSE])
                    EXCEPT !.filename = "Foo_f.hxx"]]

\* The spellings a header can give the macro that names Foo_M: traverse
\* takes a macro whose upper-cased spelling is a handle macro
MacroSpellings == {"DEFINE_HARRAY1", "Define_HArray1"}

LibMacros(spelling) ==
    "Foo_M" :> [name |-> spelling, type1 |-> "Foo_M", type2 |-> "Foo_Array1"]

LibHeaders ==
    {"Bar_K.hxx", "Foo_K.hxx", "Foo_M.hxx", "Foo_Empty.hxx", "Foo_T1.hxx", "Foo_T2.hxx",
     "NCollection_List.hxx", "Foo_L1.hxx", "Foo_L2.hxx", "Foo_Vec.hxx", "Foo_E.hxx",
     "Foo_E3.hxx", "Foo_f.hxx"}

\* The rules a configuration can hold: -class, -typedef, -enum, -function
\* for a declaration, the module rules -module Foo and +split Foo, and a
\* +sort line that lacks its ':'
DeclRules == {"Foo_K", "Foo_M", "Foo_Empty", "Foo_L2", "Foo_E1", "Foo_f"}
ModRules == {"-module Foo", "+split Foo", "+sort Foo"}

\* The rules in the order the configuration file lists them
RuleOrder ==
    <<"Foo_K", "Foo_M", "Foo_Empty", "Foo_L2", "Foo_E1", "Foo_f",
      "-module Foo", "+split Foo", "+sort Foo">>

\* The line of the configuration file that states a rule
RuleLine(rule) ==
    CASE rule \in {"Foo_K", "Foo_M", "Foo_Empty"} -> "-class " \o rule \o "\n"
      [] rule = "Foo_L2" -> "-typedef " \o rule \o "\n"
      [] rule = "Foo_E1" -> "-enum " \o rule \o "\n"
      [] rule = "Foo_f" -> "-function " \o rule \o "\n"
      [] OTHER -> rule \o "\n"

\* The configuration file of the rules drawn
ConfigOf(rules) ==
    LET chosen == SelectSeqBy(RuleOrder, rules)
    IN  [i \in DOMAIN chosen |-> RuleLine(chosen[i])]

\* Generator(occt_mods, opencascade_include_path) before any rule is read
PipeBase == GeneratorNew("OCCT", [OCCT |-> {"Foo", "Bar", "NCollection"}], LibHeaders)

\* The tables process_config leaves on the well-formed rules drawn
Configured(rules) ==
    [PipeBase EXCEPT
        !.excluded_classes = rules \cap {"Foo_K", "Foo_M", "Foo_Empty"},
        !.excluded_typedefs = rules \cap {"Foo_L2"},
        !.excluded_enums = rules \cap {"Foo_E1"},
        !.excluded_functions = rules \cap {"Foo_f"},
        !.excluded_mods = IF "-module Foo" \in rules THEN {"Foo"} ELSE {},
        !.split = IF "+split Foo" \in rules THEN {"Foo"} ELSE {}]

Init ==
    /\ \E S \in SUBSET Range(LibDecls) :
          /\ S # {} /\ Cardinality(S) <= MaxSize
          /\ tu = SelectSeqBy(LibDecls, S)
          /\ \E R \in SUBSET ((DeclRules \cap S) \cup ModRules) :
                /\ Cardinality(S) + Cardinality(R) <= MaxSize
                /\ conf = [NoConf EXCEPT !.lines = ConfigOf(R)]
          /\ \E spelling \in (IF "Foo_M" \in S THEN MacroSpellings ELSE {"DEFINE_HARRAY1"}) :
                ast = [cursors |-> LibCursors, macros |-> LibMacros(spelling)]
    /\ Generator = PipeBase
    /\ mods = <<>>
    /\ binders = <<>>
    /\ files = <<>>
    /\ pc = "process_config"
    /\ run = NoRun
    /\ lastCall = NoCall
    /\ fsrc = <<>>
    /\ gin = NoIn
    /\ gout = NoOut
    /\ circ = NoCirc

\* the registry and the binders take what a pass left
Registered(r) == mods' = r.mods /\ binders' = r.binders

\* the registry and the pairs reported take what check_circular left
Checked(r) ==
    /\ mods' = r.mods
    /\ run' = [run EXCEPT !.circular = r.found, !.checked = r.checked]

\* the binders, the output directory and the available templates take what
\* bind_templates left
TemplatesBound(r) ==
    /\ binders' = r.binders
    /\ files' = r.files
    /\ Generator' = [Generator EXCEPT !.available_templates = r.available_templates]

\* the binders and the output directory take what bind left; the run is
\* recorded with the number of files it wrote and the directory it found,
\* or as the one that raised
Bound(r) ==
    /\ binders' = r.binders
    /\ files' = r.files
    /\ run' = [run EXCEPT !.n = IF r.raised THEN @ ELSE @ + 1, !.writes = r.writes,
                           !.before = files, !.raised = r.raised]

\* the rule tables take what process_config left, and main() goes on to
\* the traversal unless process_config raised
ConfigLoaded(r) ==
    /\ Generator' = r.gen
    /\ conf' = [conf EXCEPT !.done = TRUE, !.error = r.error]

\* gen.process_config(args.config_path)
ProcessConfig ==
    /\ pc = "process_config"
    /\ ConfigLoaded(process_config(Generator, conf.lines, conf.platform))
    /\ pc' = IF conf'.error = 0 THEN "traverse" ELSE "raised"
    /\ UNCHANGED <<fsVars, ast, tu, mods, binders, run, genVars, circ>>

\* gen.traverse()
Traverse ==
    /\ pc = "traverse"
    /\ Registered(generator_traverse(mods, binders, tu))
    /\ pc' = "sort_binders"
    /\ UNCHANGED <<fsVars, inVars, run, genVars, circ, conf>>

\* gen.sort_binders() called where main() calls gen.traverse()
SortBeforeTraverse ==
    /\ pc = "traverse"
    /\ Registered(generator_sort_binders(mods, binders))
    /\ pc' = "build_includes"
    /\ UNCHANGED <<fsVars, inVars, run, genVars, circ, conf>>

\* gen.sort_binders()
SortBinders ==
    /\ pc = "sort_binders"
    /\ Registered(generator_sort_binders(mods, binders))
    /\ pc' = "build_includes"
    /\ UNCHANGED <<fsVars, inVars, run, genVars, circ, conf>>

\* gen.build_includes()
BuildIncludes ==
    /\ pc = "build_includes"
    /\ Registered(generator_build_includes(mods, binders))
    /\ pc' = "build_imports"
    /\ UNCHANGED <<fsVars, inVars, run, genVars, circ, conf>>

\* gen.build_imports()
BuildImports ==
    /\ pc = "build_imports"
    /\ mods' = generator_build_imports(mods)
    /\ pc' = "check_circular"
    /\ UNCHANGED <<fsVars, inVars, binders, run, genVars, circ, conf>>

\* gen.check_circular()
CheckCircular ==
    /\ pc = "check_circular"
    /\ Checked(check_circular(mods))
    /\ pc' = "bind_templates"
    /\ UNCHANGED <<fsVars, inVars, binders, genVars, circ, conf>>

\* gen.bind_templates(pyocct_src)
BindTemplates ==
    /\ pc = "bind_templates"
    /\ TemplatesBound(generator_bind_templates(mods, binders,
                            Generator.available_templates, files, OutDir))
    /\ pc' = "bind"
    /\ UNCHANGED <<lastCall, fsrc, ast, tu, mods, run, genVars, circ, conf>>

\* gen.bind(pyocct_src), the first time and again
Bind ==
    /\ pc = "bind"
    /\ run.n < MaxRuns
    /\ ~run.raised
    /\ Bound(generator_bind(mods, binders, files, OutDir))
    /\ UNCHANGED <<lastCall, fsrc, inVars, mods, pc, genVars, circ, conf>>

Next ==
    \/ ProcessConfig
    \/ Traverse \/ SortBinders \/ BuildIncludes \/ BuildImports
    \/ CheckCircular \/ BindTemplates \/ Bind

Spec == Init /\ [][Next]_vars

-----------------------------------------------------------------------------
(* process_config on its own: a configuration file of a few lines is       *)
(* drawn, on one of two platforms, and loaded into a new Generator.        *)

MaxLines == 2    \* lines of the configuration file

\* sys.platform
Platforms == {"linux", "win32"}

\* The lines a configuration file is drawn from: a comment, a blank line,
\* directives of several families, with and without a platform, lines
\* whose processing raises, a line of no directive, and directives whose
\* token or argument starts with the token of another
ConfigVocabulary ==
    {"# comment\n", "\n",
     "-class Foo_K\n", "-class@linux Foo_K\n", "-class@win32 Foo_K\n",
     "-function@win32 Foo_f\n",
     "-enum Foo_E1\n", "-enum@linux Foo_E1\n", "-enum@win32 Foo_E1\n",
     "+header Foo: Bar_K.hxx\n", "+header@win32 Foo: Bar_K.hxx\n",
     "+sort Foo: K=5\n", "+sort Foo: K=high\n", "+sort Foo\n",
     "-class\n", "+return_policy Foo_K::Size\n",
     "+unknown Foo_K\n", "-header* Bar_K.hxx\n", "-header Foo: Bar_K.hxx\n",
     "-function* Foo_*\n", "-function Foo_f\n",
     "+return_policy Foo_K::Size --> reference\n",
     "+return_policy +cguard Foo_K::Size --> Bar\n"}

ConfigFiles == UNION {[1..n -> ConfigVocabulary] : n \in 0..MaxLines}

\* The Generator main() constructs, before any configuration is loaded
ConfBase == GeneratorNew("OCCT", [OCCT |-> {"Foo", "Bar"}], {"Foo_K.hxx", "Bar_K.hxx"})

ConfInit ==
    /\ \E lines \in ConfigFiles, platform \in Platforms :
          conf = [lines |-> lines, platform |-> platform, done |-> FALSE, error |-> 0]
    /\ Generator = ConfBase
    /\ ast = [cursors |-> <<>>, macros |-> <<>>]
    /\ tu = <<>>
    /\ mods = <<>>
    /\ binders = <<>>
    /\ files = <<>>
    /\ pc = "idle"
    /\ run = NoRun
    /\ lastCall = NoCall
    /\ fsrc = <<>>
    /\ gin = NoIn
    /\ gout = NoOut
    /\ circ = NoCirc

\* gen.process_config(args.config_path) on the file drawn
ConfProcess ==
    /\ ~conf.done
    /\ ConfigLoaded(process_config(Generator, conf.lines, conf.platform))
    /\ UNCHANGED <<fsVars, ast, tu, pipeVars, genVars, circ>>

ConfNext == ConfProcess

SpecConfig == ConfInit /\ [][ConfNext]_vars

\* The tables after the first k lines of the file have been processed
TablesAfter(k) == process_config(ConfBase, SubSeq(conf.lines, 1, k), conf.platform).gen

\* Processing line k of the file, after the lines before it, raises
RaisesAt(k) == config_line(TablesAfter(k - 1), conf.lines[k], conf.platform).raised

\* The lines of the file whose processing raises when reached
RaisingLines == {k \in DOMAIN conf.lines : RaisesAt(k)}

\* C11: when process_config fails, every rule table is as it was before the
\* call.
C11_ConfigAtomic ==
    (conf.done /\ conf.error # 0) => Generator = ConfBase

\* process_config failed on a line that follows a directive
C11_Witness ==
    /\ conf.done
    /\ conf.error = 2
    /\ conf.lines[1] = "-enum Foo_E1\n"

\* C12: process_config fails exactly when some line raises; the error names
\* the number, counted from 1, of the first such line, and the tables are
\* those left by the lines up to it: no later line is processed.
C12_ConfigErrorLine ==
    conf.done =>
        IF RaisingLines = {} THEN conf.error = 0
        ELSE /\ conf.error \in RaisingLines
             /\ \A k \in RaisingLines : conf.error <= k
             /\ Generator = config_line(TablesAfter(conf.error - 1),
                                        conf.lines[conf.error], conf.platform).gen

\* process_config failed on the first line of a file of two lines
C12_Witness ==
    /\ conf.done
    /\ conf.error = 1
    /\ Len(conf.lines) = 2
    /\ conf.lines[2] = "-enum Foo_E1\n"

\* The directive token of a line: what precedes its first blank
DirectiveToken(line) == SplitOnce(Strip(line), " ")[1]

\* The directive token of the line carries an @platform suffix
IsQualified(line) ==
    /\ ~StartsWith(Strip(line), "#")
    /\ Contains(DirectiveToken(line), "@")

\* The platform the suffix names
NamedPlatform(line) == SplitOnce(DirectiveToken(line), "@")[2]

\* The line with the suffix taken off its directive token
Unqualified(line) ==
    SplitOnce(DirectiveToken(line), "@")[1]
        \o SubSeq(Strip(line), Len(DirectiveToken(line)) + 1, Len(Strip(line)))

\* What a qualified line has to amount to on the platform: the unqualified
\* directive when it names the platform, a blank line otherwise
PlatformMeaning(line, platform) ==
    IF NamedPlatform(line) = platform THEN Unqualified(line) ELSE "\n"

\* C13: a line whose directive token names another platform leaves the
\* tables as they are, and one that names the current platform has the
\* effect of the unqualified directive, whatever the directive is.
C13_PlatformQualified ==
    conf.done =>
        \A k \in DOMAIN conf.lines :
            IsQualified(conf.lines[k]) =>
                process_config(ConfBase,
                    [conf.lines EXCEPT ![k] = PlatformMeaning(conf.lines[k], conf.platform)],
                    conf.platform)
                  = [gen |-> Generator, error |-> conf.error]

\* a file with a line qualified for another platform has been loaded
C13_Witness ==
    /\ conf.done
    /\ conf.error = 0
    /\ \E k \in DOMAIN conf.lines :
          /\ IsQualified(conf.lines[k])
          /\ NamedPlatform(conf.lines[k]) # conf.platform

\* The directive tokens process_config looks for, in the order of the
\* source, each with the rule table of its family
Directives ==
    <<<<"+arg", "compiler_args">>, <<"+include", "include_dirs">>,
      <<"+sort", "sort_order">>, <<"-header*", "excluded_headers">>,
      <<"-class", "excluded_classes">>, <<"-typedef", "excluded_typedefs">>,
      <<"-function*", "excluded_fnames">>, <<"-function", "excluded_functions">>,
      <<"-rtype", "excluded_rtypes">>, <<"-enum", "excluded_enums">>,
      <<"-module", "excluded_mods">>, <<"+iguard", "import_guards">>,
      <<"+header", "plus_headers">>, <<"-header", "minus_headers">>,
      <<"+pname", "python_names">>, <<"+nodelete", "nodelete">>,
      <<"-base", "excluded_bases">>, <<"-field", "excluded_fields">>,
      <<"-import", "excluded_imports">>, <<"+return_policy", "return_policies">>,
      <<"+cguard", "call_guards">>, <<"+keep_alive", "keep_alive">>,
      <<"+nested", "nested_classes">>, <<"+downcast", "downcast_classes">>,
      <<"+skip", "skipped">>, <<"+before_type", "before_type">>,
      <<"+after_type", "after_type">>, <<"+immutable", "immutable">>,
      <<"+split", "split">>, <<"+patch", "patches">>, <<"+opaque", "opaque_types">>,
      <<"+before_module", "before_module">>>>

\* The directives whose token the line begins with
Matching(line) == {d \in Range(Directives) : StartsWith(Strip(line), d[1])}

\* The line is neither blank nor a comment
IsRule(line) == ~(StartsWith(Strip(line), "#") \/ Strip(line) = "")

\* The rule table of the family of the line: that of the longest directive
\* token the line begins with, None when it begins with none
Family(line) ==
    IF Matching(line) = {} THEN None
    ELSE (CHOOSE d \in Matching(line) :
            \A e \in Matching(line) : Len(e[1]) <= Len(d[1]))[2]

\* The rule tables in which two Generators differ
ChangedTables(before, after) == {t \in DOMAIN before : before[t] # after[t]}

\* The lines of the file process_config reached
Reached == {k \in DOMAIN conf.lines : conf.error = 0 \/ k <= conf.error}

\* Line k of the file, of no directive, changed no table and raised nothing
Ignored(k) ==
    /\ ~RaisesAt(k)
    /\ TablesAfter(k) = TablesAfter(k - 1)

\* Line k of the file changed no table but that of its family
OwnTableOnly(k) ==
    ChangedTables(TablesAfter(k - 1),
                  config_line(TablesAfter(k - 1), conf.lines[k], conf.platform).gen)
        \subseteq {Family(conf.lines[k])}

\* C30: a line that is neither blank nor a comment and begins with no
\* directive token leaves every rule table as it is and raises no error, and
\* a line that begins with a directive token changes the rule table of its
\* family and no other, the family being that of the longest token the line
\* begins with ("-header*" before "-header", "-function*" before
\* "-function").
C30_DirectiveFamilies ==
    conf.done =>
        \A k \in Reached :
            IsRule(conf.lines[k]) =>
                IF Family(conf.lines[k]) = None THEN Ignored(k) ELSE OwnTableOnly(k)

\* a file has been loaded that holds a line of no directive and a line of
\* the -header* directive, which has entered its header
C30_Witness ==
    /\ conf.done
    /\ conf.error = 0
    /\ \E k \in DOMAIN conf.lines : IsRule(conf.lines[k]) /\ Family(conf.lines[k]) = None
    /\ \E k \in DOMAIN conf.lines : Family(conf.lines[k]) = "excluded_headers"
    /\ Generator.excluded_headers = {"Bar_K.hxx"}
    /\ Generator.minus_headers = <<>>

\* A line of no directive is ignored, and every directive line but those of
\* +return_policy, which has no `continue`, changes its own table only
PC_OwnTableButReturnPolicy ==
    conf.done =>
        \A k \in Reached :
            IsRule(conf.lines[k]) =>
                IF Family(conf.lines[k]) = None THEN Ignored(k)
                ELSE Family(conf.lines[k]) # "return_policies" => OwnTableOnly(k)

-----------------------------------------------------------------------------
(* Properties of the pipeline.                                             *)

\* C1: once Generator.bind has run, a second run over the same declarations,
\* rules and output directory writes no file and leaves every file of the
\* directory byte for byte as the first run left it.
C1_BindIdempotent ==
    run.n >= 2 => (run.writes = 0 /\ files = run.before)

\* a second run has finished over a unit that holds a typedef of std::vector
C1_Witness ==
    /\ run.n >= 2
    /\ "Foo_Vec" \in DOMAIN binders
    /\ "src/Foo.cxx" \in DOMAIN files

\* The typedefs of a module, in the order traversal saw them
TypedefsOf(mod) ==
    SelectSeqBy(mod.types, {n \in Range(mod.types) : is_typedef(ast.cursors[n])})

\* The statement that copies the attribute of the target to the name
AttributeCopy(name, target) ==
    "\tmod.attr(\"" \o name \o "\") = mod.attr(\"" \o target \o "\");\n"

IsRegistrationLine(line) == Contains(line, "py::class_<")

\* Two typedefs of one module with the same canonical type, i seen before j
SameCanonical(mod, i, j) ==
    /\ i < j
    /\ ast.cursors[TypedefsOf(mod)[i]].type.canonical
          = ast.cursors[TypedefsOf(mod)[j]].type.canonical

\* C3: for two typedefs of one module with the same canonical type, the text
\* generated for the second one holds the attribute copy from the first-seen
\* target and no class registration.
C3_AliasLaw ==
    run.n >= 1 =>
        \A m \in DOMAIN mods :
            mods[m].name \notin Generator.excluded_mods =>
                \A i, j \in DOMAIN TypedefsOf(mods[m]) :
                    SameCanonical(mods[m], i, j) =>
                        /\ \E target \in {TypedefsOf(mods[m])[i],
                                          ast.cursors[TypedefsOf(mods[m])[j]].type.canonical} :
                              AttributeCopy(TypedefsOf(mods[m])[j], target)
                                  \in Range(binders[TypedefsOf(mods[m])[j]].src)
                        /\ \A line \in Range(binders[TypedefsOf(mods[m])[j]].src) :
                              ~IsRegistrationLine(line)

\* a module with two typedefs of one canonical type has been bound
C3_Witness ==
    /\ run.n >= 1
    /\ \E m \in DOMAIN mods :
          /\ mods[m].name \notin Generator.excluded_mods
          /\ \E i, j \in DOMAIN TypedefsOf(mods[m]) : SameCanonical(mods[m], i, j)

\* A declaration that traversal accepted and a rule excludes
ExcludedDecl(n) ==
    \/ is_excluded(Binder(binders, n))
    \/ module_name(ast.cursors[n]) \in Generator.excluded_mods

\* The last line of the source of a binder that belongs to its own
\* declaration: an enum's source goes on with the enums grouped under it
OwnLast(n) ==
    LET src == binders[n].src
        ends == {i \in DOMAIN src : src[i] = "\t.export_values();\n"}
    IN  IF is_enum(ast.cursors[n]) /\ ends # {}
        THEN (CHOOSE i \in ends : \A k \in ends : i <= k) + 1
        ELSE Len(src)

\* The lines of generated text of a declaration: its source without the
\* title line, the blank lines and the comment delimiters
TextLines(n) ==
    {i \in 2..OwnLast(n) : i \in DOMAIN binders[n].src
                           /\ binders[n].src[i] \notin {"\n", "/*\n", "*/\n"}}

\* The line is a line comment or lies between a comment opening and its end
Disabled(src, i) ==
    \/ StartsWith(src[i], "//")
    \/ \E o \in 1..(i - 1) :
          /\ src[o] = "/*\n"
          /\ \A k \in (o + 1)..(i - 1) : src[k] # "*/\n"

\* C6: after emission, each excluded declaration that traversal accepted has
\* generated text, every line of it is in an output file and every line of
\* it lies inside a disabling comment.
C6_ExclusionTransparency ==
    run.n >= 1 =>
        \A n \in DOMAIN binders :
            ExcludedDecl(n) =>
                /\ TextLines(n) # {}
                /\ \A i \in TextLines(n) :
                      /\ Disabled(binders[n].src, i)
                      /\ \E path \in DOMAIN files :
                            Contains(files[path].bytes, binders[n].src[i])

\* emission has run over a unit with an excluded declaration
C6_Witness ==
    /\ run.n >= 1
    /\ \E n \in DOMAIN binders : ExcludedDecl(n)

\* The enums of a module declared in the file of its enum e, first seen first
EnumsOfFile(mod, e) ==
    SelectSeqBy(mod.enums,
        {x \in Range(mod.enums) : ast.cursors[x].filename = ast.cursors[e].filename})

\* The value set of an enum: one .value line for each of its constants
ValueSetOf(e) ==
    [i \in DOMAIN ast.cursors[e].children |->
        "\t.value(\"" \o ast.cursors[e].children[i].spelling \o "\", "
            \o e \o "::" \o ast.cursors[e].children[i].spelling \o ")\n"]

IsValueLine(line) == StartsWith(line, "\t.value(")

\* The enum e of module mod is placed as grouping by file requires
GroupedByFile(mod, e) ==
    IF e = EnumsOfFile(mod, e)[1]
    THEN /\ e \in Range(mod.sorted_binders)
         /\ binders[e].grouped_binders
               = SubSeq(EnumsOfFile(mod, e), 2, Len(EnumsOfFile(mod, e)))
         /\ (run.n >= 1 /\ mod.name \notin Generator.excluded_mods) =>
               SelectSeq(binders[e].src, IsValueLine)
                   = Flatten([i \in DOMAIN EnumsOfFile(mod, e) |->
                                 ValueSetOf(EnumsOfFile(mod, e)[i])])
    ELSE /\ e \notin Range(mod.sorted_binders)
         /\ binders[e].skip

\* C8: after sort_binders, of the enums of a module that share a declaring
\* file only the first seen is in sorted_binders, the later ones are in its
\* grouped list, in order, with skip set; after bind_enum the source of the
\* first holds the value sets of all of them in first-seen order.
C8_EnumGrouping ==
    pc \notin {"traverse", "sort_binders"} =>
        \A m \in DOMAIN mods :
            \A e \in Range(mods[m].enums) : GroupedByFile(mods[m], e)

\* a module with two enums of one file has been sorted and bound
C8_Witness ==
    /\ run.n >= 1
    /\ \E m \in DOMAIN mods :
          /\ mods[m].name \notin Generator.excluded_mods
          /\ \E e \in Range(mods[m].enums) :
                /\ Len(EnumsOfFile(mods[m], e)) >= 2
                /\ binders[e].grouped_binders # <<>>
                /\ \E line \in Range(binders[e].src) :
                      line \in Range(ValueSetOf(EnumsOfFile(mods[m], e)[2]))

-----------------------------------------------------------------------------
(* Phase ordering of main(), checked on Spec.                               *)

\* The steps of main() in the order generate/run.py lists them
Phases ==
    <<"process_config", "traverse", "sort_binders", "build_includes", "build_imports",
      "check_circular", "bind_templates", "bind">>

\* The position of the step that runs next; a run that raised has none
PhaseOf(step) ==
    IF step \in Range(Phases) THEN CHOOSE i \in DOMAIN Phases : Phases[i] = step ELSE 0

\* The module holds declarations to emit
HasBinders(mod) == mod.enums \o mod.funcs \o mod.types # <<>>

\* Some pass after the traversal has left something in the module
Started(mod) == mod.sorted_binders # <<>> \/ mod.includes # <<>> \/ mod.imports # <<>>

\* The registry holds, module by module, the declarations a traversal of the
\* whole translation unit registers
TraversedAs(r) ==
    /\ Len(r.mods) <= Len(mods)
    /\ \A k \in DOMAIN r.mods :
          /\ mods[k].name = r.mods[k].name
          /\ mods[k].enums = r.mods[k].enums
          /\ mods[k].funcs = r.mods[k].funcs
          /\ mods[k].types = r.mods[k].types
          /\ mods[k].templates = r.mods[k].templates

\* C14: the configuration is loaded before the traversal starts, the
\* traversal of the whole translation unit is over before any module is
\* sorted, given includes or imports, or bound, and every module is sorted
\* before any module is given includes.
C14_PhaseOrdering ==
    /\ (pc # "process_config") <=> conf.done
    /\ (mods # <<>> \/ binders # <<>>) => (conf.done /\ conf.error = 0)
    /\ PhaseOf(pc) \in {1, 2} => (mods = <<>> /\ files = <<>>)
    /\ ((\E k \in DOMAIN mods : Started(mods[k])) \/ files # <<>> \/ run.n > 0)
          => TraversedAs(generator_traverse(<<>>, <<>>, tu))
    /\ (\E k \in DOMAIN mods : mods[k].includes # <<>> \/ mods[k].imports # <<>>)
          => \A k \in DOMAIN mods : HasBinders(mods[k]) => mods[k].sorted_binders # <<>>
    /\ (files # <<>> \/ run.n > 0) => PhaseOf(pc) >= 7

\* a run has bound two modules, one of which imports the other
C14_Witness ==
    /\ run.n > 0
    /\ files # <<>>
    /\ Len(mods) >= 2
    /\ \E k \in DOMAIN mods : mods[k].imports # <<>> /\ mods[k].sorted_binders # <<>>

\* Sanity: on well-formed rules process_config leaves the tables Configured gives
PC_MatchesConfigured ==
    (conf.done /\ conf.error = 0 /\ pc # "idle")
        => \E R \in SUBSET (DeclRules \cup ModRules) :
              conf.lines = ConfigOf(R) /\ Generator.excluded_classes = Configured(R).excluded_classes
              /\ Generator.excluded_typedefs = Configured(R).excluded_typedefs
              /\ Generator.excluded_enums = Configured(R).excluded_enums
              /\ Generator.excluded_functions = Configured(R).excluded_functions
              /\ Generator.excluded_mods = Configured(R).excluded_mods
              /\ Generator.split = Configured(R).split

-----------------------------------------------------------------------------
(* Failure isolation of Generator.bind, checked on Spec.                    *)

\* The files Module.bind writes for the module
ModuleFiles(mod) ==
    {PathJoin(OutDir, mod.name \o ".cxx"), PathJoin(OutDir, mod.name \o "_2.cxx")}

\* The source generated for the declaration is in a file of its module
Emitted(mod, n) ==
    /\ binders[n].src # <<>>
    /\ \E path \in ModuleFiles(mod) :
          /\ exists(files, path)
          /\ Contains(files[path].bytes, Join(binders[n].src))

\* Every declaration whose generation does not raise has been generated and
\* emitted, in every module that is not excluded
OthersEmitted ==
    \A k \in DOMAIN mods :
        mods[k].name \notin Generator.excluded_mods =>
            /\ exists(files, PathJoin(OutDir, mods[k].name \o ".cxx"))
            /\ \A i \in DOMAIN mods[k].sorted_binders :
                  ~bind_raises(binders, mods[k].sorted_binders[i])
                      => Emitted(mods[k], mods[k].sorted_binders[i])

\* C15: once Generator.bind has been run, it has not raised, and every
\* declaration whose own generation does not raise has been generated and
\* emitted, whether or not the generation of another declaration raised.
C15_FailureIsolation ==
    (run.n > 0 \/ run.raised) => (~run.raised /\ OthersEmitted)

\* the generation of one declaration raised in a run that holds another one
C15_Witness ==
    /\ run.raised
    /\ \E k \in DOMAIN mods :
          \E i, j \in DOMAIN mods[k].sorted_binders :
              /\ bind_raises(binders, mods[k].sorted_binders[i])
              /\ ~bind_raises(binders, mods[k].sorted_binders[j])

\* Sanity: a run in which nothing raised has emitted every declaration
PC_EmittedWhenNoRaise ==
    run.n > 0 => OthersEmitted

-----------------------------------------------------------------------------
(* Specification SpecSort: main() up to gen.sort_binders() on a translation *)
(* unit of the module Foo that holds a base class and a class derived from  *)
(* it, under a configuration of +sort lines.                                *)

MaxUnit == 3        \* declarations of the translation unit
MaxPatterns == 2    \* +sort lines of the configuration

\* Foo_D derives from Foo_B; Foo_E1 and Foo_E2 share the header Foo_E.hxx
SortDecls == {"Foo_B", "Foo_D", "Foo_K", "Foo_E1", "Foo_E2", "Foo_f"}

SortCursors ==
    [n \in SortDecls |->
        CASE n \in {"Foo_B", "Foo_K"} ->
                GenClass(n, <<GenMember("CXX_METHOD", n, "Size", "public")>>)
          [] n = "Foo_D" ->
                GenClass(n, <<GenBase("Foo_B", "public"),
                              GenMember("CXX_METHOD", n, "Size", "public")>>)
          [] n = "Foo_E1" -> LibEnum(n, "Foo_E.hxx", <<"Foo_E1_A">>)
          [] n = "Foo_E2" -> LibEnum(n, "Foo_E.hxx", <<"Foo_E2_A">>)
          [] n = "Foo_f" ->
                [GenCallable([kind |-> "function", kinds |-> <<"val">>, ndefaults |-> 0,
                              rvoid |-> TRUE, static |-> FALSE])
                    EXCEPT !.filename = "Foo_f.hxx"]]

SortHeaders == {"Foo_B.hxx", "Foo_D.hxx", "Foo_K.hxx", "Foo_E.hxx", "Foo_f.hxx"}

\* The translation units: a class is defined after the class it derives from
SortUnits ==
    {u \in UNION {[1..n -> SortDecls] : n \in 1..MaxUnit} :
        /\ \A i, j \in DOMAIN u : i # j => u[i] # u[j]
        /\ \A i, j \in DOMAIN u : (u[i] = "Foo_D" /\ u[j] = "Foo_B") => j < i}

\* The +sort lines a configuration can hold for the module Foo
SortPatterns == {"Foo_D", "_E", "Foo"}
SortPriorities == {"5", "20000"}
SortLines ==
    {"+sort Foo: " \o pattern \o "=" \o prio \o "\n" :
        pattern \in SortPatterns, prio \in SortPriorities}

SortConfigs == UNION {[1..n -> SortLines] : n \in 0..MaxPatterns}

SortBase == GeneratorNew("OCCT", [OCCT |-> {"Foo"}], SortHeaders)

SortInit ==
    /\ tu \in SortUnits
    /\ \E lines \in SortConfigs : conf = [NoConf EXCEPT !.lines = lines]
    /\ Generator = SortBase
    /\ ast = [cursors |-> SortCursors, macros |-> <<>>]
    /\ mods = <<>>
    /\ binders = <<>>
    /\ files = <<>>
    /\ pc = "process_config"
    /\ run = NoRun
    /\ lastCall = NoCall
    /\ fsrc = <<>>
    /\ gin = NoIn
    /\ gout = NoOut
    /\ circ = NoCirc

SortNext == ProcessConfig \/ Traverse \/ SortBinders

SpecSort == SortInit /\ [][SortNext]_vars

\* gen.sort_binders() has run
Sorted == PhaseOf(pc) > 3

\* The position of a declaration in a list that holds it
PositionIn(xs, n) == CHOOSE i \in DOMAIN xs : xs[i] = n

\* The names of the classes a declaration derives from
BaseNames(n) == {bases(ast.cursors[n])[i].spelling : i \in DOMAIN bases(ast.cursors[n])}

\* C16: after sort_binders, a base class that is in a module's
\* sorted_binders comes before every class of that list derived from it,
\* with or without +sort lines.
C16_BaseBeforeDerived ==
    Sorted =>
        \A k \in DOMAIN mods :
            \A i, j \in DOMAIN mods[k].sorted_binders :
                mods[k].sorted_binders[i] \in BaseNames(mods[k].sorted_binders[j]) => i < j

\* a module holding a base class and a class derived from it has been sorted
C16_Witness ==
    /\ Sorted
    /\ \E k \in DOMAIN mods :
          \E i, j \in DOMAIN mods[k].sorted_binders :
              mods[k].sorted_binders[i] \in BaseNames(mods[k].sorted_binders[j])

\* The declarations of a list that are the first with their key
\* (keys[k] is the key of items[k])
Representatives(items, keys) ==
    SelectSeqBy(items,
        {items[k] : k \in {k \in DOMAIN items :
                              \A j \in 1..(k - 1) : keys[j] # keys[k]}})

FileOf(n) == ast.cursors[n].filename
SpellingOf(n) == ast.cursors[n].spelling

\* The natural order of a module: the first enum of each header, the first
\* function of each name, then the types
NaturalOrder(mod) ==
    Representatives(mod.enums, [k \in DOMAIN mod.enums |-> FileOf(mod.enums[k])])
        \o Representatives(mod.funcs, [k \in DOMAIN mod.funcs |-> SpellingOf(mod.funcs[k])])
        \o mod.types

\* The (pattern, priority) pairs configured for the module
ConfiguredOrder(mod) ==
    IF mod.name \in DOMAIN Generator.sort_order THEN Generator.sort_order[mod.name] ELSE <<>>

\* The priorities a declaration can take: that of a configured pattern its
\* spelling contains, or 10000 when it contains none
PrioritiesOf(list, n) ==
    IF \E k \in DOMAIN list : Contains(SpellingOf(n), list[k][1])
    THEN {list[k][2] : k \in {k \in DOMAIN list : Contains(SpellingOf(n), list[k][1])}}
    ELSE {10000}

\* sorted is natural in non-decreasing order of f, equal priorities keeping
\* their natural order
StablySortedBy(f, natural, sorted) ==
    /\ Len(sorted) = Len(natural)
    /\ Range(sorted) = Range(natural)
    /\ \A i, j \in DOMAIN sorted :
          i < j => \/ f[sorted[i]] < f[sorted[j]]
                   \/ /\ f[sorted[i]] = f[sorted[j]]
                      /\ PositionIn(natural, sorted[i]) < PositionIn(natural, sorted[j])

\* C17: with (pattern, priority) pairs configured for a module, its
\* sorted_binders is the natural order stably sorted by priority, where a
\* declaration takes the priority of a configured pattern its spelling
\* contains and 10000 when it contains none; with no pairs configured it is
\* the natural order.
C17_PriorityStableSort ==
    Sorted =>
        \A k \in DOMAIN mods :
            IF ConfiguredOrder(mods[k]) = <<>>
            THEN mods[k].sorted_binders = NaturalOrder(mods[k])
            ELSE \E f \in [Range(NaturalOrder(mods[k])) ->
                              {10000} \cup {ConfiguredOrder(mods[k])[i][2] :
                                                i \in DOMAIN ConfiguredOrder(mods[k])}] :
                    /\ \A n \in DOMAIN f : f[n] \in PrioritiesOf(ConfiguredOrder(mods[k]), n)
                    /\ StablySortedBy(f, NaturalOrder(mods[k]), mods[k].sorted_binders)

\* a module has been sorted into an order other than its natural one, with
\* a declaration of the default priority between two configured ones
C17_Witness ==
    /\ Sorted
    /\ \E k \in DOMAIN mods :
          /\ mods[k].sorted_binders # NaturalOrder(mods[k])
          /\ Len(mods[k].sorted_binders) = 3
          /\ PrioritiesOf(ConfiguredOrder(mods[k]), mods[k].sorted_binders[1]) = {5}
          /\ PrioritiesOf(ConfiguredOrder(mods[k]), mods[k].sorted_binders[2]) = {10000}
          /\ PrioritiesOf(ConfiguredOrder(mods[k]), mods[k].sorted_binders[3]) = {20000}

-----------------------------------------------------------------------------
(* Specification SpecInc: main() on declarations of the library under a     *)
(* configuration of +header, -header and -header* lines.                    *)

MaxIncDecls == 2    \* declarations of the translation unit
MaxIncRules == 2    \* lines of the configuration

\* Foo_T1 refers to Bar_K.hxx, Foo_M brings the header of its macro, Foo_L1
\* the header of the template binding it calls
IncDecls == {"Bar_K", "Foo_K", "Foo_M", "Foo_T1", "NCollection_List", "Foo_L1"}

IncRules ==
    <<"+header Foo: Bar_K.hxx\n", "-header Foo: Bar_K.hxx\n",
      "-header Foo: pyOCCT_Common.hxx\n", "-header* Bar_K.hxx\n",
      "-header Foo: bind_Define_HArray1.hxx\n">>

IncInit ==
    /\ \E S \in SUBSET IncDecls :
          /\ S # {} /\ Cardinality(S) <= MaxIncDecls
          /\ tu = SelectSeqBy(LibDecls, S)
    /\ \E R \in SUBSET Range(IncRules) :
          /\ Cardinality(R) <= MaxIncRules
          /\ conf = [NoConf EXCEPT !.lines = SelectSeqBy(IncRules, R)]
    /\ Generator = PipeBase
    /\ ast = [cursors |-> LibCursors, macros |-> LibMacros("DEFINE_HARRAY1")]
    /\ mods = <<>>
    /\ binders = <<>>
    /\ files = <<>>
    /\ pc = "process_config"
    /\ run = NoRun
    /\ lastCall = NoCall
    /\ fsrc = <<>>
    /\ gin = NoIn
    /\ gout = NoOut
    /\ circ = NoCirc

SpecInc == IncInit /\ [][Next]_vars

\* The headers a configuration can name or a module can include
IncUniverse ==
    LibHeaders \cup {"pyOCCT_Common.hxx", "bind_Define_HArray1.hxx",
                     "bind_NCollection_List.hxx", "vector"}

\* The headers the configuration removes from the module
RemovedFrom(mod) ==
    (IF mod.name \in DOMAIN Generator.minus_headers
     THEN Range(Generator.minus_headers[mod.name]) ELSE {})
    \cup Generator.excluded_headers

\* The #include line of a header
IncludeLine(h) == "#include <" \o h \o ">\n"

\* The number of #include lines for the header in the files of the module
IncludedTimes(mod, h, path) ==
    IF exists(files, path) THEN CountOcc(files[path].bytes, IncludeLine(h)) ELSE 0

\* C18: once the includes are built no module's include list holds a
\* header the configuration removes from it or excludes globally, and once
\* the module is bound its file has no #include line for such a header and
\* no #include line twice.
C18_IncludeFiltering ==
    \A k \in DOMAIN mods :
        /\ PhaseOf(pc) > 4 => Range(mods[k].includes) \cap RemovedFrom(mods[k]) = {}
        /\ \A path \in ModuleFiles(mods[k]) :
              \A h \in IncUniverse :
                  /\ IncludedTimes(mods[k], h, path) <= 1
                  /\ h \in RemovedFrom(mods[k]) => IncludedTimes(mods[k], h, path) = 0

\* a module has been bound under a configuration that removes a header
C18_Witness ==
    /\ run.n > 0
    /\ \E k \in DOMAIN mods :
          /\ RemovedFrom(mods[k]) # {}
          /\ exists(files, PathJoin(OutDir, mods[k].name \o ".cxx"))

\* Sanity: no #include line is written twice
PC_NoIncludeTwice ==
    \A k \in DOMAIN mods : \A path \in ModuleFiles(mods[k]) : \A h \in IncUniverse :
        IncludedTimes(mods[k], h, path) <= 1

\* Sanity: a header reached only through a type reference is filtered
PC_ReferencedFiltered ==
    \A k \in DOMAIN mods :
        (PhaseOf(pc) > 4 /\ Generator.plus_headers = <<>>)
            => Range(mods[k].includes) \cap (RemovedFrom(mods[k]) \ {"pyOCCT_Common.hxx"}) = {}

-----------------------------------------------------------------------------
(* Specification SpecTrav: main() up to gen.traverse() on a translation     *)
(* unit that holds namespaces and declarations the traversal has reasons to *)
(* pass over, under a configuration of +skip and -header* lines.            *)

MaxTravItems == 2    \* children of the translation unit
MaxTravRules == 2    \* lines of the configuration

\* The spelling clang gives the type of an enum without a name
UnnamedEnum == "(unnamed enum at Foo_E.hxx:1:1)"

TravClass(name, file, scope) ==
    [GenClass(name, <<GenMember("CXX_METHOD", name, "Size", "public")>>)
        EXCEPT !.filename = file, !.scope = scope]

TravNamespace(spelling, children) ==
    [NoCursor EXCEPT !.kind = "NAMESPACE", !.spelling = spelling,
                     !.display_name = spelling, !.children = children]

\* The namespaces and what they hold: Foo_NS holds Foo_N and the namespace
\* Inner, the namespace without a name holds Foo_A, __detail holds Foo_U
\* and std holds Foo_S
TravNamespaces ==
    [n \in {"namespace Foo_NS", "namespace Inner", "namespace", "namespace __detail",
            "namespace std"} |->
        CASE n = "namespace Foo_NS" -> TravNamespace("Foo_NS", <<"Foo_N", "namespace Inner">>)
          [] n = "namespace Inner" -> TravNamespace("Inner", <<"Foo_I">>)
          [] n = "namespace" -> TravNamespace("", <<"Foo_A">>)
          [] n = "namespace __detail" -> TravNamespace("__detail", <<"Foo_U">>)
          [] n = "namespace std" -> TravNamespace("std", <<"Foo_S">>)]

\* The declarations: Foo_X is in a header that is not available, Baz_K in a
\* module that is not, Foo_Fwd is declared and not defined, Foo_Anon is an
\* enum without a name
TravDecls ==
    [n \in {"Foo_K", "Foo_N", "Foo_I", "Foo_A", "Foo_U", "Foo_S", "Foo_X", "Baz_K",
            "Handle_Foo_K", "Foo_Fwd", "Foo_Anon", "Foo_f"} |->
        CASE n = "Foo_K" -> TravClass(n, "Foo_K.hxx", "")
          [] n = "Foo_N" -> TravClass(n, "Foo_N.hxx", "Foo_NS")
          [] n = "Foo_I" -> TravClass(n, "Foo_I.hxx", "Foo_NS::Inner")
          [] n = "Foo_A" -> TravClass(n, "Foo_A.hxx", "")
          [] n = "Foo_U" -> TravClass(n, "Foo_U.hxx", "__detail")
          [] n = "Foo_S" -> TravClass(n, "Foo_S.hxx", "std")
          [] n = "Foo_X" -> TravClass(n, "Foo_X.hxx", "")
          [] n = "Baz_K" -> TravClass(n, "Baz_K.hxx", "")
          [] n = "Handle_Foo_K" -> TravClass(n, "Foo_K.hxx", "")
          [] n = "Foo_Fwd" -> [TravClass(n, "Foo_K.hxx", "") EXCEPT !.is_definition = FALSE]
          [] n = "Foo_Anon" ->
                [LibEnum("", "Foo_E.hxx", <<"Foo_Anon_A">>)
                    EXCEPT !.type = GenType(UnnamedEnum, "ENUM", "")]
          [] n = "Foo_f" ->
                [GenCallable([kind |-> "function", kinds |-> <<"val">>, ndefaults |-> 0,
                              rvoid |-> TRUE, static |-> FALSE])
                    EXCEPT !.filename = "Foo_f.hxx"]]

TravCursors == TravNamespaces @@ TravDecls

TravHeaders ==
    {"Foo_K.hxx", "Foo_N.hxx", "Foo_I.hxx", "Foo_A.hxx", "Foo_U.hxx", "Foo_S.hxx",
     "Baz_K.hxx", "Foo_E.hxx", "Foo_f.hxx"}

\* The children a translation unit can have, in the order the headers give them
TravItems ==
    <<"Foo_K", "Foo_X", "Baz_K", "Handle_Foo_K", "Foo_Fwd", "Foo_Anon", "Foo_f",
      "namespace Foo_NS", "namespace", "namespace __detail", "namespace std">>

TravRules == <<"+skip Foo_K\n", "-header* Foo_f.hxx\n", "+skip " \o UnnamedEnum \o "\n">>

TravBase == GeneratorNew("OCCT", [OCCT |-> {"Foo"}], TravHeaders)

TravInit ==
    /\ \E S \in SUBSET Range(TravItems) :
          /\ S # {} /\ Cardinality(S) <= MaxTravItems
          /\ tu = SelectSeqBy(TravItems, S)
    /\ \E R \in SUBSET Range(TravRules) :
          /\ Cardinality(R) <= MaxTravRules
          /\ conf = [NoConf EXCEPT !.lines = SelectSeqBy(TravRules, R)]
    /\ Generator = TravBase
    /\ ast = [cursors |-> TravCursors, macros |-> <<>>]
    /\ mods = <<>>
    /\ binders = <<>>
    /\ files = <<>>
    /\ pc = "process_config"
    /\ run = NoRun
    /\ lastCall = NoCall
    /\ fsrc = <<>>
    /\ gin = NoIn
    /\ gout = NoOut
    /\ circ = NoCirc

TravNext == ProcessConfig \/ Traverse

SpecTrav == TravInit /\ [][TravNext]_vars

\* The declarations a module holds
HeldBy(mod) == Range(mod.enums \o mod.funcs \o mod.types \o mod.templates)

\* The qualified name of a declaration, borrowed from its type when it has none
NameOf(c) == IF qualified_name(c) = "" THEN c.type.spelling ELSE qualified_name(c)

\* What the traversal accepts a declaration into a module for
Acceptable(mod, c) ==
    /\ c.filename \in Generator.available_incs
    /\ c.filename \notin Generator.excluded_headers
    /\ c.kind \in Generator.to_bind
    /\ NameOf(c) # ""
    /\ NameOf(c) \notin Generator.skipped
    /\ module_name(c) = mod.name
    /\ mod.name \in Generator.available_mods

AllAcceptable(ms) ==
    \A k \in DOMAIN ms : \A n \in HeldBy(ms[k]) : Acceptable(ms[k], ast.cursors[n])

\* C19: after each child of the translation unit has been traversed, and
\* afterwards, every declaration a module holds is from an available header
\* that is not excluded, of an enabled kind, with a non-empty name (borrowed
\* from its type when it has none) that is not skipped, and of the module
\* that holds it, which is available.
C19_TraversalAcceptance ==
    /\ AllAcceptable(mods)
    /\ conf.done =>
          \A k \in 0..Len(tu) :
              AllAcceptable(generator_traverse(<<>>, <<>>, SubSeq(tu, 1, k)).mods)

\* the traversal has accepted a declaration and passed over another
C19_Witness ==
    /\ PhaseOf(pc) > 2
    /\ Len(tu) = 2
    /\ \E k \in DOMAIN mods : Cardinality(HeldBy(mods[k])) = 1

\* Sanity: the acceptance holds when the name looked up in the skip set is
\* the qualified name before any borrowing
PC_AcceptableUnborrowed ==
    \A k \in DOMAIN mods : \A n \in HeldBy(mods[k]) :
        /\ ast.cursors[n].filename \in Generator.available_incs \ Generator.excluded_headers
        /\ ast.cursors[n].kind \in Generator.to_bind
        /\ NameOf(ast.cursors[n]) # ""
        /\ qualified_name(ast.cursors[n]) \notin Generator.skipped
        /\ module_name(ast.cursors[n]) = mods[k].name
        /\ mods[k].name \in Generator.available_mods

\* The namespace has no name, or is in the excluded-namespace set
Hidden(c) == c.spelling = "" \/ c.spelling \in Generator.excluded_namespaces

\* The declarations the traversal is to consider, in order: the members of a
\* namespace stand where the namespace does, unless the namespace is hidden
RECURSIVE Considered(_)
Considered(items) ==
    IF items = <<>> THEN <<>>
    ELSE (IF ~is_namespace(ast.cursors[Head(items)]) THEN <<Head(items)>>
          ELSE IF Hidden(ast.cursors[Head(items)]) THEN <<>>
          ELSE Considered(ast.cursors[Head(items)].children))
         \o Considered(Tail(items))

\* The declarations at any depth inside a hidden namespace (inside tells
\* whether items are already inside one)
RECURSIVE Concealed(_, _)
Concealed(items, inside) ==
    IF items = <<>> THEN {}
    ELSE (IF ~is_namespace(ast.cursors[Head(items)])
          THEN (IF inside THEN {Head(items)} ELSE {})
          ELSE Concealed(ast.cursors[Head(items)].children,
                         inside \/ Hidden(ast.cursors[Head(items)])))
         \cup Concealed(Tail(items), inside)

\* The registry and the binders are those of a traversal that gave r
SameTraversal(r) == mods = r.mods /\ binders = r.binders

\* C20: the traversal registers what it would register with the members
\* of every namespace standing at top level in place of the namespace,
\* except the namespaces without a name and the excluded ones, whose
\* declarations at any depth are in no module.
C20_NamespaceFiltering ==
    PhaseOf(pc) > 2 =>
        /\ SameTraversal(generator_traverse(<<>>, <<>>, Considered(tu)))
        /\ \A k \in DOMAIN mods : HeldBy(mods[k]) \cap Concealed(tu, FALSE) = {}

\* a translation unit with a namespace has been traversed
C20_Witness ==
    /\ PhaseOf(pc) > 2
    /\ \E i \in DOMAIN tu : is_namespace(ast.cursors[tu[i]])
    /\ mods # <<>>

\* Sanity: the traversal is the one the claim describes on a translation
\* unit whose namespaces have a name that does not start with "__"
PC_NamedNamespaces ==
    (PhaseOf(pc) > 2 /\ \A i \in DOMAIN tu : tu[i] \notin {"namespace", "namespace __detail"})
        => /\ SameTraversal(generator_traverse(<<>>, <<>>, Considered(tu)))
           /\ \A k \in DOMAIN mods : HeldBy(mods[k]) \cap Concealed(tu, FALSE) = {}

-----------------------------------------------------------------------------
(* Specification SpecAlias: main() up to gen.traverse() on a translation    *)
(* unit in which the typedefs Foo_T1 and Foo_T2 name the class Bar_K, in    *)
(* every order the headers can give them.                                   *)

MaxAliasUnit == 4    \* children of the translation unit

\* `class Bar_K;`, which lets a header name Bar_K before its definition
ForwardBar == "class Bar_K;"

AliasDecls == {ForwardBar, "Bar_K", "Foo_K", "Foo_T1", "Foo_T2"}

AliasCursors ==
    (ForwardBar :> [LibCursors["Bar_K"] EXCEPT !.is_definition = FALSE]) @@ LibCursors

\* The translation units: a typedef of Bar_K comes after a declaration of
\* Bar_K, and the forward declaration before the definition
AliasUnits ==
    {u \in UNION {[1..n -> AliasDecls] : n \in 1..MaxAliasUnit} :
        /\ \A i, j \in DOMAIN u : i # j => u[i] # u[j]
        /\ \A i \in DOMAIN u :
              u[i] \in {"Foo_T1", "Foo_T2"}
                  => \E j \in 1..(i - 1) : u[j] \in {ForwardBar, "Bar_K"}
        /\ \A i, j \in DOMAIN u : (u[i] = ForwardBar /\ u[j] = "Bar_K") => i < j}

AliasConfigs == {<<>>, <<"+skip Foo_T1\n">>}

AliasInit ==
    /\ tu \in AliasUnits
    /\ \E lines \in AliasConfigs : conf = [NoConf EXCEPT !.lines = lines]
    /\ Generator = PipeBase
    /\ ast = [cursors |-> AliasCursors, macros |-> <<>>]
    /\ mods = <<>>
    /\ binders = <<>>
    /\ files = <<>>
    /\ pc = "process_config"
    /\ run = NoRun
    /\ lastCall = NoCall
    /\ fsrc = <<>>
    /\ gin = NoIn
    /\ gout = NoOut
    /\ circ = NoCirc

AliasNext == ProcessConfig \/ Traverse

SpecAlias == AliasInit /\ [][AliasNext]_vars

\* canonical_types after the first k children of the translation unit
CanonicalAfter(k) == generator_traverse(<<>>, <<>>, SubSeq(tu, 1, k)).canonical_types

\* No child of the translation unit replaces an entry of canonical_types
WriteOnce ==
    \A k \in 1..Len(tu) : \A s \in DOMAIN CanonicalAfter(k - 1) :
        CanonicalAfter(k)[s] = CanonicalAfter(k - 1)[s]

\* The classes and typedefs the traversal has recorded
Recorded == UNION {Range(mods[k].types) : k \in DOMAIN mods}

\* The first recorded class or typedef of the translation unit with the
\* canonical spelling
FirstSeen(spelling) ==
    LET at == {i \in DOMAIN tu : /\ tu[i] \in Recorded
                                 /\ ast.cursors[tu[i]].type.canonical = spelling}
    IN  tu[CHOOSE i \in at : \A j \in at : i <= j]

\* C21: during the traversal no class or typedef replaces the entry that
\* canonical_types holds for its canonical spelling, and so every typedef
\* marked as an alias is the alias of the first class or typedef recorded
\* with its canonical spelling.
C21_FirstSeenAlias ==
    PhaseOf(pc) > 2 =>
        /\ WriteOnce
        /\ \A n \in DOMAIN binders :
              binders[n].alias # None
                  => binders[n].alias = FirstSeen(ast.cursors[n].type.canonical)

\* a typedef has been marked as the alias of a declaration seen before it
C21_Witness ==
    /\ PhaseOf(pc) > 2
    /\ \E n \in DOMAIN binders : binders[n].alias # None

\* Sanity: the entries are write-once, and aliases first-seen, when no
\* class is defined after a typedef that names it
PC_FirstSeenClassFirst ==
    (PhaseOf(pc) > 2
        /\ \A i, j \in DOMAIN tu :
              (tu[j] = "Bar_K" /\ tu[i] \in {"Foo_T1", "Foo_T2"}) => j < i)
        => /\ WriteOnce
           /\ \A n \in DOMAIN binders :
                 binders[n].alias # None
                     => binders[n].alias = FirstSeen(ast.cursors[n].type.canonical)

-----------------------------------------------------------------------------
(* Specification SpecSplit: main() on declarations of the library under a   *)
(* configuration of +split lines.                                           *)

MaxSplitUnit == 3    \* declarations of the translation unit

SplitDecls == {"Bar_K", "Foo_K", "Foo_Empty", "Foo_Vec", "Foo_E1", "Foo_E3", "Foo_f"}

SplitRules == <<"+split Foo\n", "+split Bar\n">>

SplitInit ==
    /\ \E S \in SUBSET SplitDecls :
          /\ S # {} /\ Cardinality(S) <= MaxSplitUnit
          /\ tu = SelectSeqBy(LibDecls, S)
    /\ \E R \in SUBSET Range(SplitRules) :
          conf = [NoConf EXCEPT !.lines = SelectSeqBy(SplitRules, R)]
    /\ Generator = PipeBase
    /\ ast = [cursors |-> LibCursors, macros |-> <<>>]
    /\ mods = <<>>
    /\ binders = <<>>
    /\ files = <<>>
    /\ pc = "process_config"
    /\ run = NoRun
    /\ lastCall = NoCall
    /\ fsrc = <<>>
    /\ gin = NoIn
    /\ gout = NoOut
    /\ circ = NoCirc

SpecSplit == SplitInit /\ [][Next]_vars

\* The text of a file of the output directory, empty when there is none
FileText(path) == IF exists(files, path) THEN files[path].bytes ELSE ""

PrimaryFile(mod) == PathJoin(OutDir, mod.name \o ".cxx")
ContinuationFile(mod) == PathJoin(OutDir, mod.name \o "_2.cxx")

\* The generated text of the binders of a list, in the order of the list
TextOf(part) == Join(Flatten([i \in DOMAIN part |-> binders[part[i]].src]))

\* The binders of the list that have generated text and whose text is in the file
BindersIn(path, part) ==
    {i \in DOMAIN part : /\ binders[part[i]].src # <<>>
                         /\ Contains(FileText(path), TextOf(<<part[i]>>))}

\* The binders of the list that have generated text, among those from lo to hi
WithText(part, lo, hi) == {i \in lo..hi : binders[part[i]].src # <<>>}

\* The declaration of bind_<module>_2, the start of the module body and the
\* call of bind_<module>_2
SplitDeclaration(mod) == "void bind_" \o mod.name \o "_2(py::module&);\n"
ModuleBody(mod) == "PYBIND11_MODULE(" \o mod.name \o ", mod) {\n"
SplitCall(mod) == "bind_" \o mod.name \o "_2(mod);\n"

\* The files of a module flagged split, of n binders of which the primary
\* file takes the first indx
SplitInTwo(mod, n, indx) ==
    /\ exists(files, PrimaryFile(mod))
    /\ exists(files, ContinuationFile(mod))
    /\ BindersIn(PrimaryFile(mod), mod.sorted_binders)
          = WithText(mod.sorted_binders, 1, indx)
    /\ BindersIn(ContinuationFile(mod), mod.sorted_binders)
          = WithText(mod.sorted_binders, indx + 1, n)
    /\ Contains(FileText(PrimaryFile(mod)),
                ModuleBody(mod) \o "\n" \o Join(module_import_src(mod))
                    \o TextOf(SubSeq(mod.sorted_binders, 1, indx)) \o "\n" \o SplitCall(mod))
    /\ Contains(FileText(ContinuationFile(mod)),
                TextOf(SubSeq(mod.sorted_binders, indx + 1, n)))
    /\ IndexOf(FileText(PrimaryFile(mod)), SplitDeclaration(mod)) > 0
    /\ IndexOf(FileText(PrimaryFile(mod)), SplitDeclaration(mod))
          < IndexOf(FileText(PrimaryFile(mod)), ModuleBody(mod))

\* The files of a module that is not flagged split
InOneFile(mod) ==
    /\ exists(files, PrimaryFile(mod))
    /\ ~exists(files, ContinuationFile(mod))
    /\ Contains(FileText(PrimaryFile(mod)), TextOf(mod.sorted_binders))
    /\ BindersIn(PrimaryFile(mod), mod.sorted_binders)
          = WithText(mod.sorted_binders, 1, Len(mod.sorted_binders))

\* C22: once Generator.bind has run, a module flagged split with n sorted
\* binders has the text of exactly the first n div 2 of them in
\* <module>.cxx and of exactly the others in <module>_2.cxx, each in
\* sorted order; <module>.cxx declares bind_<module>_2 before the module
\* body and calls it after its own binders.  A module that is not flagged
\* has the text of all its binders in <module>.cxx and no <module>_2.cxx.
C22_SplitPartition ==
    run.n > 0 =>
        \A k \in DOMAIN mods :
            mods[k].name \notin Generator.excluded_mods =>
                IF mods[k].name \in Generator.split
                THEN SplitInTwo(mods[k], Len(mods[k].sorted_binders),
                                Len(mods[k].sorted_binders) \div 2)
                ELSE InOneFile(mods[k])

\* a module of three binders flagged split has been bound next to a module
\* that is not flagged
C22_Witness ==
    /\ run.n > 0
    /\ \E k \in DOMAIN mods :
          /\ mods[k].name \in Generator.split
          /\ Len(mods[k].sorted_binders) = 3
          /\ \A i \in 1..3 : binders[mods[k].sorted_binders[i]].src # <<>>

\* a module that is not flagged split has been bound
C22_WitnessOneFile ==
    /\ run.n > 0
    /\ \E k \in DOMAIN mods :
          mods[k].name \notin Generator.split /\ Len(mods[k].sorted_binders) >= 2

-----------------------------------------------------------------------------
(* Specification SpecReg: main() on declarations of four modules, of which  *)
(* the translation unit defines some and the headers refer to others, under *)
(* a configuration of -import and +header lines.                            *)

MaxRegUnit == 3     \* declarations of the translation unit
MaxRegRules == 2    \* lines of the configuration

RegDecls == <<"Bar_K", "Foo_K", "Foo_T1", "NCollection_List", "Foo_L1", "Baz_K">>

RegCursors ==
    ("Baz_K" :> [GenClass("Baz_K", <<GenMember("CXX_METHOD", "Baz_K", "Size", "public")>>)
                    EXCEPT !.filename = "Baz_K.hxx"])
    @@ LibCursors

\* "Ext" is a module of another package of the namespace manifest
RegBase ==
    GeneratorNew("OCCT", [OCCT |-> {"Foo", "Bar", "NCollection", "Baz"}, Other |-> {"Ext"}],
                 LibHeaders \cup {"Baz_K.hxx"})

\* The lines a configuration can hold: an import Foo is not to make, and
\* headers for Foo to include whose names give "Ext", "Baz", "Foo" and "vector"
RegRules ==
    <<"-import Foo: Bar\n", "+header Foo: Ext_K.hxx\n", "+header Foo: Baz.hxx\n",
      "+header Foo: Foo_K.hxx\n", "+header Foo: vector\n">>

RegInit ==
    /\ \E S \in SUBSET Range(RegDecls) :
          /\ S # {} /\ Cardinality(S) <= MaxRegUnit
          /\ tu = SelectSeqBy(RegDecls, S)
    /\ \E R \in SUBSET Range(RegRules) :
          /\ Cardinality(R) <= MaxRegRules
          /\ conf = [NoConf EXCEPT !.lines = SelectSeqBy(RegRules, R)]
    /\ Generator = RegBase
    /\ ast = [cursors |-> RegCursors, macros |-> <<>>]
    /\ mods = <<>>
    /\ binders = <<>>
    /\ files = <<>>
    /\ pc = "process_config"
    /\ run = NoRun
    /\ lastCall = NoCall
    /\ fsrc = <<>>
    /\ gin = NoIn
    /\ gout = NoOut
    /\ circ = NoCirc

SpecReg == RegInit /\ [][Next]_vars

\* The names of the registry, in its order
RegistryNames(ms) == [k \in DOMAIN ms |-> ms[k].name]

\* The names imported by a module of the registry
ImportedNames(ms) == UNION {Range(ms[k].imports) : k \in DOMAIN ms}

\* C23: once traverse has returned, the registry holds the modules the
\* traversal registered, whatever later phases have run: none of them adds
\* or removes a module.
C23_RegistryFrozen ==
    PhaseOf(pc) > 2 =>
        RegistryNames(mods) = RegistryNames(generator_traverse(<<>>, <<>>, tu).mods)

\* check_circular has looked at a pair of modules, one of which imports
C23_Witness ==
    /\ PhaseOf(pc) > 6
    /\ Len(generator_traverse(<<>>, <<>>, tu).mods) >= 3
    /\ ImportedNames(mods) # {}

\* Sanity: the registry is the traversal's when every imported name is the
\* name of a module the traversal registered
PC_FrozenWhenRegistered ==
    (PhaseOf(pc) > 2
        /\ ImportedNames(mods)
              \subseteq Range(RegistryNames(generator_traverse(<<>>, <<>>, tu).mods)))
        => RegistryNames(mods) = RegistryNames(generator_traverse(<<>>, <<>>, tu).mods)

\* The module name the name of a file gives
ModuleOfFile(inc_file) == module_name([NoCursor EXCEPT !.filename = inc_file])

\* The import list of a module is as build_imports is to leave it
ImportsInOrder(mod) ==
    /\ \A i, j \in DOMAIN mod.imports : i # j => mod.imports[i] # mod.imports[j]
    /\ mod.name \notin Range(mod.imports)
    /\ mod.name \in DOMAIN Generator.excluded_imports
          => Range(mod.imports) \cap Range(Generator.excluded_imports[mod.name]) = {}
    /\ \A name \in Range(mod.imports) :
          /\ \E ns \in DOMAIN Generator.namespace : name \in Generator.namespace[ns]
          /\ \E f \in Range(mod.includes) : ModuleOfFile(f) = name

\* C28: after build_imports, the import list of every module has no name
\* twice, neither the module's own name nor a name the configuration
\* excludes for the module, only names the namespace manifest gives a
\* package for, and every name is the module name of one of the module's
\* include files.
C28_ImportList ==
    PhaseOf(pc) > 5 => \A k \in DOMAIN mods : ImportsInOrder(mods[k])

\* build_imports has run on a module one of whose include files names the
\* module itself, another an excluded import, another no module
C28_Witness ==
    /\ PhaseOf(pc) > 5
    /\ \E k \in DOMAIN mods :
          /\ mods[k].imports # <<>>
          /\ mods[k].name \in DOMAIN Generator.excluded_imports
          /\ \E f \in Range(mods[k].includes) :
                ModuleOfFile(f) \in Range(Generator.excluded_imports[mods[k].name])
          /\ \E f \in Range(mods[k].includes) : ModuleOfFile(f) = mods[k].name
          /\ \E f \in Range(mods[k].includes) : get_namespace(ModuleOfFile(f)) = None

-----------------------------------------------------------------------------
(* Specification SpecPolicy: generate_method on the method Get of the class *)
(* Foo_G, drawn with its parameters, its return type, its access, the       *)
(* method SetGet the class may declare next to it, and the return-value     *)
(* policy the configuration may hold for it.                                *)

MaxPolicyParams == 2

\* What Get returns: an int, a reference to a double, a reference to a
\* const double
PolicyRType(k) ==
    CASE k = "val" -> GenType("int", "INT", "")
      [] k = "ref" -> GenType("double &", "LVALUEREFERENCE", "double")
      [] k = "cref" -> GenType("const double &", "LVALUEREFERENCE", "const double")

PolicyInputs ==
    {d \in [kind : {"method"},
            kinds : UNION {[1..n -> {"val", "cin"}] : n \in 0..MaxPolicyParams},
            ndefaults : 0..MaxPolicyParams, rvoid : {FALSE}, static : {FALSE},
            returns : {"val", "ref", "cref"}, access : {"public", "protected"},
            setter : {"none", "public", "private"}, policy : {"none", "copy"}] :
        d.ndefaults <= Len(d.kinds)}

\* The cursor of Get
PolicyMethod(d) ==
    [GenCallable(d) EXCEPT !.scope = "Foo_G", !.filename = "Foo_G.hxx",
                           !.parent_name = "cls_Foo_G", !.access = d.access,
                           !.rtype = PolicyRType(d.returns)]

\* The cursor of Foo_G
PolicyClass(d) ==
    GenClass("Foo_G",
        <<PolicyMethod(d)>>
        \o (IF d.setter = "none" THEN <<>>
            ELSE <<GenMember("CXX_METHOD", "Foo_G", "SetGet", d.setter)>>))

PolicyInit ==
    /\ gin \in PolicyInputs
    /\ gout = NoOut
    /\ Generator = [GeneratorNew("OCCT", [OCCT |-> {"Foo"}], {"Foo_G.hxx"})
                        EXCEPT !.return_policies =
                                  IF gin.policy = "none" THEN <<>>
                                  ELSE qualified_name(PolicyMethod(gin)) :> gin.policy]
    /\ ast = [cursors |-> "Foo_G" :> PolicyClass(gin), macros |-> <<>>]
    /\ tu = <<>>
    /\ files = <<>>
    /\ lastCall = NoCall
    /\ fsrc = <<>>
    /\ mods = <<>>
    /\ binders = <<>>
    /\ pc = "idle"
    /\ run = NoRun
    /\ circ = NoCirc
    /\ conf = NoConf

GenerateGetter ==
    /\ ~gout.done
    /\ gout' = [done |-> TRUE, src |-> generate_method(PolicyMethod(gin))]
    /\ GenFrame

SpecPolicy == PolicyInit /\ [][GenerateGetter]_vars

\* Get is public, returns a reference to a value that may be modified, and
\* Foo_G has a public method SetGet
IsGetter == gin.access = "public" /\ gin.returns = "ref" /\ gin.setter = "public"

\* The policy the bindings of Get are to carry, "" for none
PolicyDue ==
    IF gin.policy # "none" THEN ", py::return_value_policy::" \o gin.policy
    ELSE IF IsGetter THEN ", py::return_value_policy::reference_internal"
    ELSE ""

\* C25: every binding emitted for a method carries the return-value policy
\* configured for its qualified name; without one, every binding emitted for
\* a getter, those of reduced arity included, carries reference_internal;
\* a binding of any other method carries no policy.
C25_ReturnPolicy ==
    gout.done =>
        \A i \in DOMAIN gout.src :
            IF PolicyDue = "" THEN ~Contains(gout.src[i], "py::return_value_policy")
            ELSE Contains(gout.src[i], PolicyDue)

\* the bindings of a getter with a defaulted parameter have been generated
C25_Witness ==
    /\ gout.done /\ IsGetter /\ gin.policy = "none"
    /\ gin.ndefaults > 0
    /\ Len(gout.src) = gin.ndefaults + 1

\* the binding of reduced arity of a method with a configured policy has
\* been generated without it
PC_ReducedWithoutPolicy ==
    /\ gout.done /\ gin.policy = "copy" /\ gin.ndefaults = 1
    /\ ~Contains(gout.src[1], "py::return_value_policy")
    /\ Contains(gout.src[2], PolicyDue)

\* Sanity: the binding of the full signature carries the configured policy,
\* or reference_internal when the method is public, returns a reference and
\* has a public setter; no other binding carries a policy
PC_PolicyOnFullBinding ==
    gout.done =>
        \A i \in DOMAIN gout.src :
            LET due == IF gin.policy # "none" THEN ", py::return_value_policy::" \o gin.policy
                       ELSE IF gin.access = "public" /\ gin.returns \in {"ref", "cref"}
                               /\ gin.setter = "public"
                       THEN ", py::return_value_policy::reference_internal"
                       ELSE ""
            IN  IF i = Len(gout.src) /\ due # "" THEN Contains(gout.src[i], due)
                ELSE ~Contains(gout.src[i], "py::return_value_policy")

-----------------------------------------------------------------------------
(* Specification SpecTempl: main() on a translation unit in which the       *)
(* typedefs Foo_L1 and Foo_L2 name a specialization of the class template   *)
(* NCollection_List, under a configuration that may exclude the template's  *)
(* header.                                                                  *)

MaxTemplUnit == 3    \* declarations of the translation unit

TemplDecls == {"Foo_K", "NCollection_List", "Foo_L1", "Foo_L2"}

TemplRules == <<"-header* NCollection_List.hxx\n", "-typedef Foo_L2\n", "+split Foo\n">>

\* The translation units: a typedef of NCollection_List<int> comes after
\* the template
TemplInit ==
    /\ \E S \in SUBSET TemplDecls :
          /\ S # {} /\ Cardinality(S) <= MaxTemplUnit
          /\ (S \cap {"Foo_L1", "Foo_L2"} # {}) => "NCollection_List" \in S
          /\ tu = SelectSeqBy(LibDecls, S)
    /\ \E R \in SUBSET Range(TemplRules) :
          conf = [NoConf EXCEPT !.lines = SelectSeqBy(TemplRules, R)]
    /\ Generator = PipeBase
    /\ ast = [cursors |-> LibCursors, macros |-> <<>>]
    /\ mods = <<>>
    /\ binders = <<>>
    /\ files = <<>>
    /\ pc = "process_config"
    /\ run = NoRun
    /\ lastCall = NoCall
    /\ fsrc = <<>>
    /\ gin = NoIn
    /\ gout = NoOut
    /\ circ = NoCirc

SpecTempl == TemplInit /\ [][Next]_vars

\* The class templates of the library
TemplateNames == {n \in DOMAIN ast.cursors : is_class_template(ast.cursors[n])}

\* The text generated for the typedef calls the binding function of the template
CallsTemplate(n, t) ==
    \E i \in DOMAIN binders[n].src : StartsWith(binders[n].src[i], "bind_" \o t \o "<")

\* The template has been generated into the directory before the run of
\* Generator.bind, and the module's file includes its header
TemplateGenerated(mod, t) ==
    /\ ("bind_" \o t) \in Generator.available_templates
    /\ exists(run.before, PathJoin(OutDir, "bind_" \o t \o ".hxx"))
    /\ Contains(FileText(PrimaryFile(mod)), IncludeLine("bind_" \o t \o ".hxx"))

\* C26: once Generator.bind has run, for every typedef whose text in a
\* module's file calls bind_<Template>, that function was registered as an
\* available template and its file written before the typedef was bound,
\* and the module includes the template's header.
C26_TemplateBeforeUse ==
    run.n > 0 =>
        \A k \in DOMAIN mods : \A n \in Range(mods[k].sorted_binders) :
            \A t \in TemplateNames :
                (mods[k].name \notin Generator.excluded_mods
                    /\ is_typedef(ast.cursors[n]) /\ CallsTemplate(n, t))
                    => TemplateGenerated(mods[k], t)

\* a typedef that calls the binding function of a generated template has
\* been bound
C26_Witness ==
    /\ run.n > 0
    /\ \E k \in DOMAIN mods : \E n \in Range(mods[k].sorted_binders) :
          /\ is_typedef(ast.cursors[n])
          /\ CallsTemplate(n, "NCollection_List")
          /\ TemplateGenerated(mods[k], "NCollection_List")

\* Sanity: the template is generated before its use when the traversal
\* registered it
PC_TemplateWhenRegistered ==
    (run.n > 0 /\ \E k \in DOMAIN mods : mods[k].templates # <<>>) =>
        \A k \in DOMAIN mods : \A n \in Range(mods[k].sorted_binders) :
            \A t \in TemplateNames :
                (mods[k].name \notin Generator.excluded_mods
                    /\ is_typedef(ast.cursors[n]) /\ CallsTemplate(n, t))
                    => TemplateGenerated(mods[k], t)

-----------------------------------------------------------------------------
(* Specification SpecPairs: gen.check_circular() on a registry of up to     *)
(* MaxRegistry modules, each of which imports one name or none.             *)

MaxRegistry == 4        \* modules of the registry

PairMods == <<"Foo", "Bar", "Baz", "Qux", "Zed">>

\* The import list of the i-th module, of no name or one: a module does not
\* import itself, and "Ext" is a module of another package
PairImports(i, name) == IF name = PairMods[i] THEN <<>> ELSE <<name>>

PairsInit ==
    /\ Generator = GeneratorNew("OCCT", [OCCT |-> Range(PairMods), Other |-> {"Ext"}], {})
    /\ \E n \in 1..MaxRegistry :
          \E names \in [1..n -> Range(PairMods) \cup {"Ext"}] :
              mods = [i \in 1..n |->
                        [NewModule(PairMods[i]) EXCEPT !.imports = PairImports(i, names[i])]]
    /\ pc = "check_circular"
    /\ circ = NoCirc
    /\ conf = NoConf
    /\ ast = [cursors |-> <<>>, macros |-> <<>>]
    /\ tu = <<>>
    /\ files = <<>>
    /\ lastCall = NoCall
    /\ fsrc = <<>>
    /\ binders = <<>>
    /\ run = NoRun
    /\ gin = NoIn
    /\ gout = NoOut

SpecPairs == PairsInit /\ [][CheckCircular]_vars

\* The pairs of modules (mods[i], mods[j]) with i < j and j before the last
\* position of the registry
CoveredPairs(ms) ==
    {<<ms[p[1]].name, ms[p[2]].name>> :
        p \in {q \in (DOMAIN ms) \X (DOMAIN ms) : q[1] < q[2] /\ q[2] < Len(ms)}}

\* C27: check_circular calls is_circular on exactly the pairs (mods[i],
\* mods[j]) of the registry with i < j and j not the last position, once
\* each; the last module is in no pair as the second member and in no pair
\* reported.
C27_PairCoverage ==
    [][pc = "check_circular" =>
        /\ Range(run'.checked) = CoveredPairs(mods)
        /\ Len(run'.checked) = Cardinality(CoveredPairs(mods))
        /\ \A k \in DOMAIN run'.checked : run'.checked[k][2] # mods[Len(mods)].name
        /\ \A k \in DOMAIN run'.circular :
              mods[Len(mods)].name \notin {run'.circular[k][1], run'.circular[k][2]}]_vars

\* check_circular has run on a registry whose last module and another
\* module import each other, and has reported another pair
C27_Witness ==
    /\ pc = "bind_templates"
    /\ Len(mods) = 4
    /\ mods[4].imports = <<mods[3].name>> /\ mods[3].imports = <<mods[4].name>>
    /\ run.circular = <<<<mods[1].name, mods[2].name>>>>
    /\ Len(run.checked) = 3

-----------------------------------------------------------------------------
(* Specification SpecDep: one call self.is_dependent(other) on a registry   *)
(* of up to MaxDepMods modules with any import lists of up to MaxDepImports *)
(* names, one iteration of the while loop at a time.  gin holds the         *)
(* arguments of the call, gout its local variables.                         *)

MaxDepMods == 2         \* modules of the registry
MaxDepImports == 2      \* names of an import list
MaxDepStack == 12       \* names the stack holds

\* The modules of the package, of which the registry holds the first ones;
\* "Ext" is a module of another package
DepMods == <<"Foo", "Bar", "Baz", "Zed">>

DepNames == DepMods \o <<"Ext">>

DepInit ==
    /\ Generator = GeneratorNew("OCCT", [OCCT |-> Range(DepMods), Other |-> {"Ext"}], {})
    /\ \E n \in 1..MaxDepMods :
          /\ \E imports \in [1..n -> {S \in SUBSET Range(DepNames) :
                                        Cardinality(S) <= MaxDepImports}] :
                mods = [i \in 1..n |->
                          [NewModule(DepMods[i]) EXCEPT
                              !.imports = SelectSeqBy(DepNames, imports[i])]]
          /\ \E i, j \in 1..n :
                gin = [kind |-> "is_dependent", self |-> DepMods[i], other |-> DepMods[j]]
    /\ pc = "is_dependent"
    /\ gout = NoOut
    /\ circ = NoCirc
    /\ conf = NoConf
    /\ ast = [cursors |-> <<>>, macros |-> <<>>]
    /\ tu = <<>>
    /\ files = <<>>
    /\ lastCall = NoCall
    /\ fsrc = <<>>
    /\ binders = <<>>
    /\ run = NoRun

\* Module.is_dependent up to the while loop: the local variables, `visits`
\* being the names added to `visited`, in order
dependent_enter(self, other) ==
    IF self.imports = <<>> /\ other.imports = <<>>
    THEN [done |-> TRUE, result |-> FALSE, visited |-> {}, stack |-> <<>>, visits |-> <<>>]
    ELSE [done |-> FALSE, result |-> FALSE, visited |-> {}, stack |-> self.imports,
          visits |-> <<>>]

\* One iteration of the while loop with no `visited.add(mod_name)`
dependent_step_unmarked(ms, other, fr) ==
    IF fr.stack = <<>> THEN [frame |-> [fr EXCEPT !.done = TRUE], mods |-> ms]
    ELSE LET mod_name == Head(fr.stack)
             popped == [fr EXCEPT !.stack = Tail(fr.stack)]
             added == [popped EXCEPT !.visits = Append(fr.visits, mod_name)]
         IN  IF mod_name \in fr.visited THEN [frame |-> popped, mods |-> ms]
             ELSE IF mod_name = other.name
             THEN [frame |-> [added EXCEPT !.done = TRUE, !.result = TRUE], mods |-> ms]
             ELSE IF mod_name \notin Generator.available_mods
             THEN [frame |-> [added EXCEPT !.done = TRUE], mods |-> ms]
             ELSE LET ms2 == get_module_registry(ms, mod_name)
                  IN  [frame |-> [added EXCEPT !.stack =
                                    ms2[ModIndex(ms2, mod_name)].imports \o @],
                       mods |-> ms2]

\* One iteration of the while loop of Module.is_dependent, or the return
\* after it: the local variables and the registry afterwards
dependent_step(ms, other, fr) ==
    IF fr.stack = <<>> THEN [frame |-> [fr EXCEPT !.done = TRUE], mods |-> ms]
    ELSE LET mod_name == Head(fr.stack)
             popped == [fr EXCEPT !.stack = Tail(fr.stack)]
             added == [popped EXCEPT !.visited = @ \cup {mod_name},
                                     !.visits = Append(fr.visits, mod_name)]
         IN  IF mod_name \in fr.visited THEN [frame |-> popped, mods |-> ms]
             ELSE IF mod_name = other.name
             THEN [frame |-> [added EXCEPT !.done = TRUE, !.result = TRUE], mods |-> ms]
             ELSE IF mod_name \notin Generator.available_mods
             THEN [frame |-> [added EXCEPT !.done = TRUE], mods |-> ms]
             ELSE LET ms2 == get_module_registry(ms, mod_name)
                  IN  [frame |-> [added EXCEPT !.stack =
                                    ms2[ModIndex(ms2, mod_name)].imports \o @],
                       mods |-> ms2]

\* The local variables and the registry are as one iteration leaves them
Stepped(r) ==
    /\ gout' = r.frame
    /\ mods' = r.mods
    /\ pc' = IF r.frame.done THEN "returned" ELSE "while"

\* self.is_dependent(other) is called
DependentEnter ==
    /\ pc = "is_dependent"
    /\ Stepped([frame |-> dependent_enter(mods[ModIndex(mods, gin.self)],
                                          mods[ModIndex(mods, gin.other)]),
                mods |-> mods])
    /\ UNCHANGED <<files, lastCall, fsrc, Generator, ast, tu, binders, run, gin, circ, conf>>

\* The while loop of is_dependent makes one iteration
DependentStep ==
    /\ pc = "while"
    /\ Len(gout.stack) <= MaxDepStack
    /\ Stepped(dependent_step(mods, mods[ModIndex(mods, gin.other)], gout))
    /\ UNCHANGED <<files, lastCall, fsrc, Generator, ast, tu, binders, run, gin, circ, conf>>

DepNext == DependentEnter \/ DependentStep

\* The interpreter runs the call for as long as it has a step to make
SpecDep == DepInit /\ [][DepNext]_vars /\ WF_vars(DepNext)

\* No name is added to `visited` twice
VisitedOnce ==
    pc # "is_dependent" =>
        /\ \A i, j \in DOMAIN gout.visits : i # j => gout.visits[i] # gout.visits[j]
        /\ Range(gout.visits) = gout.visited

\* C29: on any registry, with cycles of imports and modules that import
\* themselves, is_dependent returns, and until then it goes past the
\* `visited` test with no module name twice.
C29_DependentTerminates == []VisitedOnce /\ <>(pc = "returned")

\* is_dependent has returned with nothing left on the stack, after it went
\* through the imports of a module that imports itself, on a registry where
\* two modules import each other
C29_Witness ==
    /\ pc = "returned"
    /\ gout.stack = <<>>
    /\ \E k \in DOMAIN mods :
          /\ mods[k].name # gin.other
          /\ mods[k].name \in Range(mods[k].imports) \cap gout.visited
    /\ \E k, l \in DOMAIN mods :
          /\ k # l
          /\ {mods[k].name, mods[l].name} \subseteq gout.visited
          /\ mods[k].name \in Range(mods[l].imports)
          /\ mods[l].name \in Range(mods[k].imports)

\* The stack stays within MaxDepStack names
PC_StackBounded == pc = "while" => Len(gout.stack) <= MaxDepStack

\* The iterations give what is_dependent gives as one operator
PC_StepsAgree ==
    pc = "returned" =>
        LET whole == is_dependent(mods, mods[ModIndex(mods, gin.self)],
                                  mods[ModIndex(mods, gin.other)])
        IN  whole.result = gout.result

=============================================================================
